---- MODULE Spec2Model ----
(***************************************************************************)
(* Model of the spreadsheet-to-sales-order synchronisation of              *)
(* src/manager.py and src/sos_inventory_integration/sos_api.py.            *)
(*                                                                         *)
(* Six specifications share the module:                                    *)
(*   Spec        the polling loop of monitor_sheet: snapshot, completion   *)
(*               filter, row deduplication, hand-over to                   *)
(*               process_completed_row;                                    *)
(*   SpecRow     the per-row loop of manager.add_items_to_sales_order over *)
(*               one remote sales order, with the row's outcome;           *)
(*   SpecApi     calls of the read-modify-write merge functions of sos_api *)
(*               (single item and multiple items, both merge rules);       *)
(*   SpecCall    single calls of build_search_string,                      *)
(*               extract_items_from_sheet_data,                            *)
(*               search_and_update_sales_orders, filter_completed_rows and *)
(*               ensure_valid_sos_token over bounded inputs;               *)
(*   SpecProcess single calls of process_completed_row: validation, search *)
(*               components, extraction, resolution, merge, row colour;    *)
(*   SpecLoop    monitor_sheet step by step: setup, fetch, one             *)
(*               process_completed_row call per new row against the remote *)
(*               order, update of the tracking variables, sleep.           *)
(*                                                                         *)
(* Numbers: unit prices are integers in 1/10000 of a currency unit,        *)
(* amounts are integers in 1/100 (the two decimals round(x, 2) keeps),     *)
(* quantities are positive integers.                                       *)
(***************************************************************************)
EXTENDS Integers, Sequences, FiniteSets, TLC

VARIABLES
    \* ---- polling loop (manager.py) ----
    sheet,                      \* the data rows of the worksheet, top to bottom
    nextKey,                    \* number of rows ever created (fresh column-A values)
    clock,                      \* time of the last fetch attempt (time.time())
    prev_hash,                  \* monitor_sheet's prev_hash
    previous_completed_rows,    \* manager._previous_completed_rows
    processed_rows_cache,       \* manager._processed_rows_cache
    new_completed_rows,         \* what the last get_new_completed_rows returned
    processed,                  \* history: rows handed to process_completed_row
    edited,                     \* history: column-A values of rows whose cells changed
    last_fetch,                 \* outcome of the last fetch_sheet_data
    edits,                      \* number of edits made to the worksheet
    first_ok,                   \* history: time of the first successful fetch (0: none yet)
    row_results,                \* history: what process_completed_row returned, per processed row
    \* ---- merge (sos_api.py, manager.add_items_to_sales_order) ----
    order,                      \* the remote sales order
    op,                         \* the merge operation that ran last
    op_items,                   \* its item requests
    op_before,                  \* history: the remote order when it began
    op_result,                  \* what it returned (success flag, additions)
    row_colour,                 \* the colour process_completed_row asked for
    http,                       \* history: the requests it sent, in order
    calls,                      \* number of merge operations run so far
    \* ---- one call of a function of manager.py studied on its own ----
    inp,                        \* the arguments and the environment of the call
    out,                        \* what the call returned and did
    \* ---- monitor_sheet step by step (manager.py) ----
    pc,                         \* where monitor_sheet is
    sos_access_token,           \* manager._sos_access_token
    name_row,                   \* row 2 of the worksheet (names, marker)
    sheet_data_cache,           \* manager._sheet_data_cache
    pending,                    \* rows the for loop has not reached yet
    colours,                    \* history: the color_row calls, in order
    data_hash,                  \* monitor_sheet's current_hash (last successful fetch)
    baseline                    \* history: the completed rows of the first snapshot fetched

monitorVars == <<sheet, nextKey, clock, prev_hash, previous_completed_rows,
                 processed_rows_cache, new_completed_rows, processed, edited,
                 last_fetch, edits, first_ok, row_results>>
mergeVars == <<order, op, op_items, op_before, op_result, row_colour, http,
               calls>>
callVars == <<inp, out>>
loopVars == <<pc, sos_access_token, name_row, sheet_data_cache, pending,
              colours, data_hash, baseline>>
vars == <<sheet, nextKey, clock, prev_hash, previous_completed_rows,
          processed_rows_cache, new_completed_rows, processed, edited,
          last_fetch, edits, first_ok, row_results, order, op, op_items, op_before,
          op_result, row_colour, http, calls, inp, out, pc, sos_access_token,
          name_row, sheet_data_cache, pending, colours, data_hash, baseline>>

(***************************************************************************)
(* Bounds of the model.                                                    *)
(***************************************************************************)
MaxRows == 2
MaxCycles == 4
MaxEdits == 3

(***************************************************************************)
(* Small helpers.                                                          *)
(***************************************************************************)
Min(a, b) == IF a < b THEN a ELSE b

\* No call studied on its own was made.
NoCall == [kind |-> "none"]

\* Python's None for the module global _sos_access_token.
NoToken == "none"

\* Python's None for a list-valued global, and a list value.
NoneRows == [isNone |-> TRUE, rows |-> <<>>]
SomeRows(rs) == [isNone |-> FALSE, rows |-> rs]

\* Python str.strip() on the cell values the model uses.
Strip(c) ==
    CASE c = "yes " -> "yes"
      [] c = " Done?" -> "Done?"
      [] c = " HA 101 " -> "HA 101"
      [] c = "  " -> ""
      [] c = " 7 " -> "7"
      [] c = " 0" -> "0"
      [] OTHER -> c

\* Python str.lower() on the cell values the model uses.
Lower(c) ==
    CASE c = "Yes" -> "yes"
      [] c = "YES" -> "yes"
      [] c = "Done?" -> "done?"
      [] c = "Date" -> "date"
      [] OTHER -> c

DONE_COLUMN_NAME == "Done?"

\* Column-A values of the data rows: row k ever created holds KeyName[k].
KeyName == <<"r1", "r2", "r3", "r4", "r5", "r6">>

\* What an operator types into the "Done?" cell.
DoneCells == {"", "Yes", "yes "}

\* The two rows above the data rows: item ids, then names with the marker.
HeaderRows == << <<"", "">>, <<"Date", "Done?">> >>

\* sheet.get_all_values(): the whole worksheet.
Snapshot == HeaderRows \o sheet

(***************************************************************************)
(* create_row_signature: md5 of str(row_number) and the first five cells,  *)
(* stripped, joined by "|".  The digest is modelled by the joined parts    *)
(* (md5 taken as collision free; no cell of the model contains "|").       *)
(***************************************************************************)
create_row_signature(row) ==
    <<row.row_number>> \o
        [i \in 1..Min(5, Len(row.data)) |-> Strip(row.data[i])]

(***************************************************************************)
(* find_done_column: the first cell, rows top to bottom and cells left to  *)
(* right, that equals the marker text after strip and lower.               *)
(***************************************************************************)
IsMarker(c) == c # "" /\ Lower(Strip(c)) = Lower(DONE_COLUMN_NAME)

MarkerPositions(data) ==
    UNION {{<<r, c>> : c \in {k \in 1..Len(data[r]) : IsMarker(data[r][k])}} :
              r \in 1..Len(data)}

find_done_column(data) ==
    LET ps == MarkerPositions(data)
    IN  IF ps = {} THEN [found |-> FALSE, row |-> 0, column |-> 0]
        ELSE LET r == CHOOSE r \in {p[1] : p \in ps} :
                          \A q \in ps : r <= q[1]
                 c == CHOOSE c \in {p[2] : p \in {q \in ps : q[1] = r}} :
                          \A q \in ps : q[1] = r => c <= q[2]
             IN  [found |-> TRUE, row |-> r, column |-> c]

(***************************************************************************)
(* filter_completed_rows: the rows below the marker row whose marker cell  *)
(* is "yes" after strip and lower, with their 1-indexed row numbers.       *)
(***************************************************************************)
\* filter_completed_rows as it would be if the rows at or above the marker
\* row were not skipped.
RECURSIVE FilterFrom_AboveMarker(_, _, _)
FilterFrom_AboveMarker(data, info, i) ==
    IF i > Len(data) THEN <<>>
    ELSE LET keep == /\ Len(data[i]) >= info.column
                     /\ Lower(Strip(data[i][info.column])) = "yes"
             rest == FilterFrom_AboveMarker(data, info, i + 1)
         IN  IF keep
             THEN <<[row_number |-> i, data |-> data[i]]>> \o rest
             ELSE rest

RECURSIVE FilterFrom(_, _, _)
FilterFrom(data, info, i) ==
    IF i > Len(data) THEN <<>>
    ELSE LET keep == /\ i > info.row
                     /\ Len(data[i]) >= info.column
                     /\ Lower(Strip(data[i][info.column])) = "yes"
             rest == FilterFrom(data, info, i + 1)
         IN  IF keep
             THEN <<[row_number |-> i, data |-> data[i]]>> \o rest
             ELSE rest

\* filter_completed_rows as it would be if a worksheet without the marker
\* were read as one with the marker in the last cell of its second row.
filter_completed_rows_AssumedMarker(data) ==
    IF data = <<>> THEN <<>>
    ELSE LET info == find_done_column(data)
         IN  IF ~info.found
             THEN IF Len(data) < 2 THEN <<>>
                  ELSE FilterFrom(data, [found |-> TRUE, row |-> 2,
                                         column |-> Len(data[2])], 1)
             ELSE FilterFrom(data, info, 1)

filter_completed_rows(data) ==
    IF data = <<>> THEN <<>>
    ELSE LET info == find_done_column(data)
         IN  IF ~info.found THEN <<>> ELSE FilterFrom(data, info, 1)

\* get_new_completed_rows as it would be if the processed-rows cache were
\* filled but never consulted.
RECURSIVE NewFrom_CacheIgnored(_, _, _, _)
NewFrom_CacheIgnored(current, previous, cache, i) ==
    IF i > Len(current) THEN [new |-> <<>>, cache |-> cache]
    ELSE LET signature == create_row_signature(current[i])
             was_previous ==
                 \E j \in 1..Len(previous) :
                     create_row_signature(previous[j]) = signature
         IN  IF was_previous
             THEN NewFrom_CacheIgnored(current, previous, cache, i + 1)
             ELSE LET rest == NewFrom_CacheIgnored(current, previous,
                                                   cache \cup {signature}, i + 1)
                  IN  [new |-> <<current[i]>> \o rest.new,
                       cache |-> rest.cache]

(***************************************************************************)
(* get_new_completed_rows: the result and the cache afterwards.            *)
(***************************************************************************)
\* NewFrom as it would be if a row were looked up in the previous set by
\* its row number alone.
RECURSIVE NewFrom_PreviousByRowNumber(_, _, _, _)
NewFrom_PreviousByRowNumber(current, previous, cache, i) ==
    IF i > Len(current) THEN [new |-> <<>>, cache |-> cache]
    ELSE LET signature == create_row_signature(current[i])
             was_previous ==
                 \E j \in 1..Len(previous) :
                     previous[j].row_number = current[i].row_number
         IN  IF signature \in cache \/ was_previous
             THEN NewFrom_PreviousByRowNumber(current, previous, cache, i + 1)
             ELSE LET rest == NewFrom_PreviousByRowNumber(
                                  current, previous,
                                  cache \cup {signature}, i + 1)
                  IN  [new |-> <<current[i]>> \o rest.new,
                       cache |-> rest.cache]

RECURSIVE NewFrom(_, _, _, _)
NewFrom(current, previous, cache, i) ==
    IF i > Len(current) THEN [new |-> <<>>, cache |-> cache]
    ELSE LET signature == create_row_signature(current[i])
             was_previous ==
                 \E j \in 1..Len(previous) :
                     create_row_signature(previous[j]) = signature
         IN  IF signature \in cache \/ was_previous
             THEN NewFrom(current, previous, cache, i + 1)
             ELSE LET rest == NewFrom(current, previous,
                                      cache \cup {signature}, i + 1)
                  IN  [new |-> <<current[i]>> \o rest.new,
                       cache |-> rest.cache]

\* get_new_completed_rows without the first-run return: None treated as an
\* empty previous set.
get_new_completed_rows_NoFirstRun(current_completed, previous_completed, cache) ==
    NewFrom(current_completed, previous_completed.rows, cache, 1)

get_new_completed_rows(current_completed, previous_completed, cache) ==
    IF previous_completed.isNone
    THEN [new |-> <<>>, cache |-> cache]
    ELSE NewFrom(current_completed, previous_completed.rows, cache, 1)

(***************************************************************************)
(* The worksheet is edited by its operators between polls.                 *)
(***************************************************************************)
MaxKeys == 3

InsertAt(s, pos, e) == SubSeq(s, 1, pos - 1) \o <<e>> \o SubSeq(s, pos, Len(s))

RemoveAt(s, pos) == SubSeq(s, 1, pos - 1) \o SubSeq(s, pos + 1, Len(s))

ProcessedKeys == {processed[i].data[1] : i \in 1..Len(processed)}

\* A cell of data row i changes: remembered when the row was processed before.
EditedAfter(i) ==
    IF sheet[i][1] \in ProcessedKeys THEN edited \cup {sheet[i][1]} ELSE edited

MarkDone ==
    \E i \in 1..Len(sheet), c \in DoneCells \ {""} :
        /\ sheet[i][2] = ""
        /\ edits < MaxEdits
        /\ edits' = edits + 1
        /\ sheet' = [sheet EXCEPT ![i][2] = c]
        /\ edited' = EditedAfter(i)
        /\ UNCHANGED <<nextKey, clock, prev_hash, previous_completed_rows,
                       processed_rows_cache, new_completed_rows, processed,
                       last_fetch, first_ok, row_results>>
        /\ UNCHANGED <<mergeVars, callVars, loopVars>>

UnmarkDone ==
    \E i \in 1..Len(sheet) :
        /\ sheet[i][2] # ""
        /\ edits < MaxEdits
        /\ edits' = edits + 1
        /\ sheet' = [sheet EXCEPT ![i][2] = ""]
        /\ edited' = EditedAfter(i)
        /\ UNCHANGED <<nextKey, clock, prev_hash, previous_completed_rows,
                       processed_rows_cache, new_completed_rows, processed,
                       last_fetch, first_ok, row_results>>
        /\ UNCHANGED <<mergeVars, callVars, loopVars>>

InsertRow ==
    \E pos \in 1..(Len(sheet) + 1) :
        /\ Len(sheet) < MaxRows
        /\ nextKey < MaxKeys
        /\ edits < MaxEdits
        /\ edits' = edits + 1
        /\ sheet' = InsertAt(sheet, pos, <<KeyName[nextKey + 1], "">>)
        /\ nextKey' = nextKey + 1
        /\ UNCHANGED <<clock, prev_hash, previous_completed_rows,
                       processed_rows_cache, new_completed_rows, processed,
                       edited, last_fetch, first_ok, row_results>>
        /\ UNCHANGED <<mergeVars, callVars, loopVars>>

DeleteRow ==
    \E pos \in 1..Len(sheet) :
        /\ edits < MaxEdits
        /\ edits' = edits + 1
        /\ sheet' = RemoveAt(sheet, pos)
        /\ UNCHANGED <<nextKey, clock, prev_hash, previous_completed_rows,
                       processed_rows_cache, new_completed_rows, processed,
                       edited, last_fetch, first_ok, row_results>>
        /\ UNCHANGED <<mergeVars, callVars, loopVars>>

(***************************************************************************)
(* fetch_sheet_data: the fingerprint is md5 of the flattened cells and the *)
(* millisecond timestamp; modelled by the pair (md5 taken as collision     *)
(* free).                                                                  *)
(***************************************************************************)
fetch_sheet_data(data, timestamp) == <<data, timestamp>>

NoHash == <<>>

(***************************************************************************)
(* One iteration of the loop of monitor_sheet whose fetch fails: the       *)
(* iteration ends at `continue`.                                           *)
(***************************************************************************)
PollFail ==
    /\ clock < MaxCycles
    /\ clock' = clock + 1
    /\ last_fetch' = "fail"
    /\ UNCHANGED <<sheet, nextKey, prev_hash, previous_completed_rows,
                   processed_rows_cache, new_completed_rows, processed, edited,
                   edits, first_ok, row_results>>
    /\ UNCHANGED <<mergeVars, callVars, loopVars>>

\* What process_completed_row does with a row handed to it, seen from the
\* loop: it returns True (row coloured as success), returns False or raises
\* (row coloured as error).
RowResults == {"success", "error"}

(***************************************************************************)
(* One iteration of the loop of monitor_sheet whose fetch succeeds: every  *)
(* new completed row is handed to process_completed_row, whatever the      *)
(* outcome of the rows before it.                                          *)
(***************************************************************************)
PollOk ==
    /\ clock < MaxCycles
    /\ clock' = clock + 1
    /\ last_fetch' = "ok"
    /\ first_ok' = IF first_ok = 0 THEN clock + 1 ELSE first_ok
    /\ LET data == Snapshot
           current_hash == fetch_sheet_data(data, clock + 1)
           current_completed_rows == filter_completed_rows(data)
           r == get_new_completed_rows(current_completed_rows,
                                       previous_completed_rows,
                                       processed_rows_cache)
       IN  IF current_hash # prev_hash
           THEN /\ new_completed_rows' = r.new
                /\ processed_rows_cache' = r.cache
                /\ processed' = processed \o r.new
                /\ \E results \in [1..Len(r.new) -> RowResults] :
                       row_results' = row_results \o results
                /\ prev_hash' = current_hash
                /\ previous_completed_rows' = SomeRows(current_completed_rows)
           ELSE UNCHANGED <<new_completed_rows, processed_rows_cache,
                            processed, row_results, prev_hash,
                            previous_completed_rows>>
    /\ UNCHANGED <<sheet, nextKey, edited, edits>>
    /\ UNCHANGED <<mergeVars, callVars, loopVars>>

\* monitor_sheet, studied step by step, not started.
LoopAtRest ==
    /\ pc = "none"
    /\ sos_access_token = NoToken
    /\ name_row = <<>>
    /\ sheet_data_cache = <<>>
    /\ pending = <<>>
    /\ colours = <<>>
    /\ data_hash = NoHash
    /\ baseline = NoneRows

\* The remote order while the polling loop is studied on its own.
IdleOrder ==
    [id |-> "SO1", syncToken |-> 0, total |-> 0, number |-> "HA 101 September",
     customer |-> "ACME", comment |-> "call first", lines |-> <<>>]

InitSheets ==
    { <<>>,
      << <<"r1", "">> >>,
      << <<"r1", "Yes">> >>,
      << <<"r1", "Yes">>, <<"r2", "">> >> }

Init ==
    /\ sheet \in InitSheets
    /\ nextKey = Len(sheet)
    /\ clock = 0
    /\ prev_hash = NoHash
    /\ previous_completed_rows = NoneRows
    /\ processed_rows_cache = {}
    /\ new_completed_rows = <<>>
    /\ processed = <<>>
    /\ edited = {}
    /\ last_fetch = "none"
    /\ edits = 0
    /\ first_ok = 0
    /\ row_results = <<>>
    /\ order = IdleOrder
    /\ op = "none"
    /\ op_items = <<>>
    /\ op_before = IdleOrder
    /\ op_result = [success |-> FALSE]
    /\ row_colour = "none"
    /\ http = <<>>
    /\ calls = 0
    /\ inp = NoCall
    /\ out = NoCall
    /\ LoopAtRest

Next ==
    \/ MarkDone
    \/ UnmarkDone
    \/ InsertRow
    \/ DeleteRow
    \/ PollFail
    \/ PollOk

Spec == Init /\ [][Next]_vars

(***************************************************************************)
(* Claims about the polling loop (specification Spec).                     *)
(***************************************************************************)
SignaturesOf(rows) == {create_row_signature(rows[i]) : i \in 1..Len(rows)}

\* C1: across all poll cycles get_new_completed_rows emits a row signature
\* at most once: the rows it has returned so far, over all cycles, carry
\* pairwise different signatures, whatever previous_completed was.
C1_SignatureEmittedOnce ==
    \A i, j \in 1..Len(processed) :
        i < j => create_row_signature(processed[i])
                     # create_row_signature(processed[j])

\* C1 witness: a row was emitted, its done cell was cleared and set again
\* afterwards, and the latest successful cycle (the fourth fetch) saw it
\* completed under the same signature and emitted nothing.
C1_Witness ==
    /\ Len(processed) = 1
    /\ clock = 4
    /\ last_fetch = "ok"
    /\ new_completed_rows = <<>>
    /\ processed[1].data[1] \in edited
    /\ ~previous_completed_rows.isNone
    /\ create_row_signature(processed[1])
           \in SignaturesOf(previous_completed_rows.rows)

\* C2 (as claimed): a spreadsheet row whose cells stay the same is handed to
\* process_completed_row at most once, also when its row number changes.
C2_RowProcessedAtMostOnce ==
    \A i, j \in 1..Len(processed) :
        (i < j /\ processed[i].data = processed[j].data)
            => processed[i].data[1] \in edited

\* C3: while previous_completed is None a cycle returns no new row and
\* processes none, however many rows are marked done, and a failed fetch
\* leaves previous_completed None.
C3_FirstCycleSuppression ==
    [][previous_completed_rows.isNone =>
          /\ new_completed_rows' = <<>>
          /\ processed' = processed
          /\ (last_fetch' = "fail" => previous_completed_rows'.isNone)]_vars

\* C3 witness: the fetch at time 1 failed, the first successful fetch
\* (time 2) found rows marked done, and nothing was processed.
C3_Witness ==
    /\ clock = 2
    /\ first_ok = 2
    /\ ~previous_completed_rows.isNone
    /\ Len(previous_completed_rows.rows) >= 1
    /\ new_completed_rows = <<>>
    /\ processed = <<>>

\* C12 (as claimed): a row whose processing failed is not handed to
\* process_completed_row again on a later poll while it stays marked done
\* (none of its cells changes).
C12_FailedRowNotRetried ==
    \A i, j \in 1..Len(processed) :
        (i < j /\ row_results[i] = "error"
               /\ processed[i].data[1] = processed[j].data[1])
            => processed[i].data[1] \in edited

(***************************************************************************)
(* The remote sales order and the merge of item requests into it           *)
(* (sos_api.py).                                                           *)
(***************************************************************************)
MaxCalls == 2

\* Fields of a sales order object as the service returns it.
ReadOnlyFields == {"id", "syncToken", "total"}
WritableHeaderFields == {"number", "customer", "comment"}

\* get_current_date_string(): today, YYYY-MM-DD.
get_current_date_string == "2026-11-01"

\* A row date an item request may carry; "" stands for None.
RowDate == "2025-09-15"

\* abs(current_price_float - unit_price) > 0.001, in 1/10000.
PRICE_TOLERANCE == 10

\* The selling price the item endpoint returns, in 1/10000.
CatalogPrice(item_id) == IF item_id = "42" THEN 10049 ELSE 25000

\* Python round(x / d) for an exact decimal x / d: ties go to the even
\* neighbour (no product of the model's prices and quantities is a tie).
RoundDiv(n, d) ==
    LET f == n \div d
        r == n % d
    IN  IF 2 * r > d THEN f + 1
        ELSE IF 2 * r < d THEN f
        ELSE IF f % 2 = 0 THEN f ELSE f + 1

\* calculate_line_amount: round(float(quantity) * float(unit_price), 2).
calculate_line_amount(quantity, unit_price) ==
    RoundDiv(quantity * unit_price, 100)

MaxOf(S) == IF S = {} THEN 0 ELSE CHOOSE m \in S : \A x \in S : x <= m

\* A line number taken from the number of lines instead of their maximum.
next_line_number_ByCount(lines) == Len(lines) + 1

\* max([line.get("lineNumber", 0) for line in lines], default=0) + 1
next_line_number(lines) ==
    MaxOf({lines[i].lineNumber : i \in 1..Len(lines)}) + 1

\* The new_line dictionary of the append branches.
new_line(lines, item_id, quantity, unit_price, due_date) ==
    [lineNumber |-> next_line_number(lines),
     item |-> item_id,
     quantity |-> quantity,
     unitprice |-> unit_price,
     amount |-> calculate_line_amount(quantity, unit_price),
     duedate |-> due_date,
     tax |-> "not taxable"]

Abs(x) == IF x < 0 THEN -x ELSE x

\* update_existing_line as it would be if the fetched price were always
\* written to the line.
update_existing_line_PriceAlways(line, quantity, unit_price, due_date) ==
    LET new_quantity == line.quantity + quantity
    IN  [line EXCEPT !.quantity = new_quantity,
                     !.duedate = due_date,
                     !.unitprice = unit_price,
                     !.amount = calculate_line_amount(new_quantity, unit_price)]

\* The update of an existing line (match-and-increment branch).
update_existing_line(line, quantity, unit_price, due_date) ==
    LET new_quantity == line.quantity + quantity
        priced == IF Abs(line.unitprice - unit_price) > PRICE_TOLERANCE
                  THEN unit_price ELSE line.unitprice
    IN  [line EXCEPT !.quantity = new_quantity,
                     !.duedate = due_date,
                     !.unitprice = priced,
                     !.amount = calculate_line_amount(new_quantity, unit_price)]

\* existing_line_index as it would be if no line were ever matched.
existing_line_index_NoMatch(lines, item_id) == 0

\* Index of the first line whose item id equals item_id as strings; 0: none.
existing_line_index(lines, item_id) ==
    LET hits == {i \in 1..Len(lines) : lines[i].item = item_id}
    IN  IF hits = {} THEN 0 ELSE CHOOSE i \in hits : \A j \in hits : i <= j

\* merge_item as it would be if force_new_line were not honoured.
merge_item_ForceIgnored(lines, item_id, quantity, unit_price, due_date, force_new_line) ==
    LET k == existing_line_index(lines, item_id)
    IN  IF k # 0
        THEN [lines EXCEPT
                 ![k] = update_existing_line(lines[k], quantity,
                                             unit_price, due_date)]
        ELSE Append(lines,
                    new_line(lines, item_id, quantity, unit_price, due_date))

\* The lines after one item request has been merged into them.
merge_item(lines, item_id, quantity, unit_price, due_date, force_new_line) ==
    IF force_new_line
    THEN Append(lines, new_line(lines, item_id, quantity, unit_price, due_date))
    ELSE LET k == existing_line_index(lines, item_id)
         IN  IF k # 0
             THEN [lines EXCEPT
                      ![k] = update_existing_line(lines[k], quantity,
                                                  unit_price, due_date)]
             ELSE Append(lines,
                         new_line(lines, item_id, quantity, unit_price, due_date))

\* A body rebuilt from selected fields, the comment forgotten.
put_body_Rebuilt(current_data, lines) ==
    [id |-> current_data.id, number |-> current_data.number,
     customer |-> current_data.customer, lines |-> lines]

\* The object handed to update_sales_order: current_data with its lines
\* replaced.
put_body(current_data, lines) == [current_data EXCEPT !.lines = lines]

\* response.get("data", response)
data_of(response) ==
    IF "data" \in DOMAIN response THEN response.data ELSE response

(***************************************************************************)
(* The remote service.  GET returns the order wrapped in "data".  A PUT    *)
(* that succeeds replaces the writable fields by those of the body (a      *)
(* field the body lacks is cleared), recomputes the total and advances the *)
(* sync token; a PUT that fails changes nothing.                           *)
(***************************************************************************)
RECURSIVE SumAmounts(_)
SumAmounts(lines) ==
    IF lines = <<>> THEN 0 ELSE Head(lines).amount + SumAmounts(Tail(lines))

FieldOr(body, f) == IF f \in DOMAIN body THEN body[f] ELSE ""

get_sales_order_by_id(ord) == [data |-> ord]

update_sales_order(ord, body) ==
    [id |-> ord.id,
     syncToken |-> ord.syncToken + 1,
     total |-> SumAmounts(body.lines),
     number |-> FieldOr(body, "number"),
     customer |-> FieldOr(body, "customer"),
     comment |-> FieldOr(body, "comment"),
     lines |-> IF "lines" \in DOMAIN body THEN body.lines ELSE <<>>]

\* Entries of the request history.
GetRequest(ok, response) == [m |-> "GET", ok |-> ok, body |-> response]
PriceRequest(ok, item_id) == [m |-> "ITEM", ok |-> ok, body |-> [item |-> item_id]]
PutRequest(ok, body) == [m |-> "PUT", ok |-> ok, body |-> body]

\* add_item_to_sales_order as it would be if the price were looked up before
\* the outcome of the GET is tested.
add_item_to_sales_order_PriceFirst(ord, item_id, quantity, force_new_line, line_date, env) ==
    IF ~env.get_ok
    THEN [success |-> FALSE, order |-> ord,
          http |-> <<GetRequest(FALSE, [error |-> "failed"]),
                     PriceRequest(env.price_ok, item_id)>>]
    ELSE LET response == get_sales_order_by_id(ord)
             current_data == data_of(response)
             unit_price == IF env.price_ok THEN CatalogPrice(item_id) ELSE 0
             due_date == IF line_date # "" THEN line_date
                         ELSE get_current_date_string
             lines == merge_item(current_data.lines, item_id, quantity,
                                 unit_price, due_date, force_new_line)
             body == put_body(current_data, lines)
         IN  [success |-> env.put_ok,
              order |-> IF env.put_ok THEN update_sales_order(ord, body) ELSE ord,
              http |-> <<GetRequest(TRUE, response),
                         PriceRequest(env.price_ok, item_id),
                         PutRequest(env.put_ok, body)>>]

(***************************************************************************)
(* add_item_to_sales_order: GET, price lookup, merge of one item, PUT.     *)
(* env says which of the three requests succeed.                           *)
(***************************************************************************)
add_item_to_sales_order(ord, item_id, quantity, force_new_line, line_date, env) ==
    IF ~env.get_ok
    THEN [success |-> FALSE, order |-> ord,
          http |-> <<GetRequest(FALSE, [error |-> "failed"])>>]
    ELSE LET response == get_sales_order_by_id(ord)
             current_data == data_of(response)
             unit_price == IF env.price_ok THEN CatalogPrice(item_id) ELSE 0
             due_date == IF line_date # "" THEN line_date
                         ELSE get_current_date_string
             lines == merge_item(current_data.lines, item_id, quantity,
                                 unit_price, due_date, force_new_line)
             body == put_body(current_data, lines)
         IN  [success |-> env.put_ok,
              order |-> IF env.put_ok THEN update_sales_order(ord, body) ELSE ord,
              http |-> <<GetRequest(TRUE, response),
                         PriceRequest(env.price_ok, item_id),
                         PutRequest(env.put_ok, body)>>]

(***************************************************************************)
(* add_multiple_items_to_sales_order: one GET, every item merged into the  *)
(* local lines (invalid items skipped), one PUT.  env.price_ok[i] says     *)
(* whether the price lookup of item i succeeds.                            *)
(***************************************************************************)
\* merge_items as it would be if an item whose price lookup failed were
\* left out of the lines.
RECURSIVE merge_items_DropUnpriced(_, _, _, _)
merge_items_DropUnpriced(lines, items, price_ok, i) ==
    IF i > Len(items)
    THEN [lines |-> lines, http |-> <<>>, price_errors |-> <<>>]
    ELSE LET it == items[i]
             due_date == IF it.row_date # "" THEN it.row_date
                         ELSE get_current_date_string
         IN  IF it.item_id = "" \/ it.quantity <= 0
             THEN merge_items_DropUnpriced(lines, items, price_ok, i + 1)
             ELSE LET rest == merge_items_DropUnpriced(
                                  IF price_ok[i]
                                  THEN merge_item(lines, it.item_id, it.quantity,
                                                  CatalogPrice(it.item_id),
                                                  due_date, it.force_new_line)
                                  ELSE lines,
                                  items, price_ok, i + 1)
                  IN  [lines |-> rest.lines,
                       http |-> <<PriceRequest(price_ok[i], it.item_id)>>
                                    \o rest.http,
                       price_errors |->
                           (IF price_ok[i] THEN <<>> ELSE <<it.item_id>>)
                               \o rest.price_errors]

RECURSIVE merge_items(_, _, _, _)
merge_items(lines, items, price_ok, i) ==
    IF i > Len(items)
    THEN [lines |-> lines, http |-> <<>>, price_errors |-> <<>>]
    ELSE LET it == items[i]
             due_date == IF it.row_date # "" THEN it.row_date
                         ELSE get_current_date_string
         IN  IF it.item_id = "" \/ it.quantity <= 0
             THEN merge_items(lines, items, price_ok, i + 1)
             ELSE LET unit_price == IF price_ok[i]
                                    THEN CatalogPrice(it.item_id) ELSE 0
                      rest == merge_items(
                                  merge_item(lines, it.item_id, it.quantity,
                                             unit_price, due_date,
                                             it.force_new_line),
                                  items, price_ok, i + 1)
                  IN  [lines |-> rest.lines,
                       http |-> <<PriceRequest(price_ok[i], it.item_id)>>
                                    \o rest.http,
                       price_errors |->
                           (IF price_ok[i] THEN <<>> ELSE <<it.item_id>>)
                               \o rest.price_errors]

\* price_errors is the list of that name in the result of a successful call
\* (the items are named by their ids).
add_multiple_items_to_sales_order(ord, items, env) ==
    IF ~env.get_ok
    THEN [success |-> FALSE, order |-> ord, price_errors |-> <<>>,
          http |-> <<GetRequest(FALSE, [error |-> "failed"])>>]
    ELSE LET response == get_sales_order_by_id(ord)
             current_data == data_of(response)
             merged == merge_items(current_data.lines, items, env.price_ok, 1)
             body == put_body(current_data, merged.lines)
         IN  [success |-> env.put_ok,
              order |-> IF env.put_ok THEN update_sales_order(ord, body) ELSE ord,
              price_errors |-> IF env.put_ok THEN merged.price_errors ELSE <<>>,
              http |-> <<GetRequest(TRUE, response)>> \o merged.http
                           \o <<PutRequest(env.put_ok, body)>>]

(***************************************************************************)
(* manager.add_items_to_sales_order: one add_item_to_sales_order call per  *)
(* item, always with force_new_line=True; success when at least one call   *)
(* succeeded.  envs[i] is the environment of the call for item i;          *)
(* successful and failed are successful_additions and failed_additions.    *)
(***************************************************************************)
RECURSIVE add_items_loop(_, _, _, _)
add_items_loop(ord, items, envs, i) ==
    IF i > Len(items)
    THEN [order |-> ord, http |-> <<>>, successful |-> <<>>, failed |-> <<>>]
    ELSE LET r == add_item_to_sales_order(ord, items[i].item_id,
                                          items[i].quantity, TRUE,
                                          items[i].row_date, envs[i])
             rest == add_items_loop(r.order, items, envs, i + 1)
         IN  [order |-> rest.order,
              http |-> r.http \o rest.http,
              successful |-> (IF r.success THEN <<items[i]>> ELSE <<>>)
                                 \o rest.successful,
              failed |-> (IF r.success THEN <<>> ELSE <<items[i]>>)
                             \o rest.failed]

add_items_to_sales_order(ord, items, envs) ==
    LET r == add_items_loop(ord, items, envs, 1)
    IN  [success |-> r.successful # <<>>, order |-> r.order, http |-> r.http,
         successful |-> r.successful, failed |-> r.failed]

\* The success colour whatever the outcome.
colour_of_AlwaysSuccess(success) == "success"

\* process_completed_row, steps 5 and after: the colour asked for.
colour_of(success) == IF success THEN "success" ELSE "error"

(***************************************************************************)
(* Inputs of the merge operations.                                         *)
(***************************************************************************)
ItemIds == {"42", "7"}

Item(id, q, f, d) ==
    [item_id |-> id, quantity |-> q, force_new_line |-> f, row_date |-> d]

RowDates == {"", RowDate}

\* What extract_items_from_sheet_data yields for a row: every request with
\* force_new_line True and the row's date.
RowItemLists ==
    UNION { { <<Item("42", 2, TRUE, d)>>,
              <<Item("42", 2, TRUE, d), Item("7", 1, TRUE, d)>> } : d \in RowDates }

\* Item lists handed to add_multiple_items_to_sales_order.
ApiItemLists ==
    { <<Item("42", 2, FALSE, RowDate), Item("42", 2, FALSE, RowDate)>>,
      <<Item("7", 1, TRUE, ""), Item("42", 2, FALSE, "")>>,
      <<Item("42", 0, FALSE, ""), Item("7", 1, FALSE, RowDate)>>,
      <<Item("7", 1, FALSE, "")>> }

\* Which requests of one add_item_to_sales_order call succeed (after a
\* failed GET no other request is sent).
CallEnvs ==
    {[get_ok |-> FALSE, price_ok |-> FALSE, put_ok |-> FALSE]}
        \cup [get_ok : {TRUE}, price_ok : BOOLEAN, put_ok : BOOLEAN]

\* The same for add_multiple_items_to_sales_order and n items.
MultiEnvs(n) ==
    {[get_ok |-> FALSE, price_ok |-> [i \in 1..n |-> FALSE], put_ok |-> FALSE]}
        \cup [get_ok : {TRUE}, price_ok : [1..n -> BOOLEAN], put_ok : BOOLEAN]

\* Lines an order holds before the engine touches it.
Line42 ==
    [lineNumber |-> 1, item |-> "42", quantity |-> 1, unitprice |-> 10051,
     amount |-> 101, duedate |-> "2025-08-01", tax |-> "taxable"]

Line7 ==
    [lineNumber |-> 3, item |-> "7", quantity |-> 2, unitprice |-> 25000,
     amount |-> 500, duedate |-> "2025-08-02", tax |-> "taxable"]

InitLines == { <<>>, <<Line42>>, <<Line7, Line42>> }

InitOrder(lines) ==
    [IdleOrder EXCEPT !.lines = lines, !.total = SumAmounts(lines)]

(***************************************************************************)
(* process_completed_row from the resolved order on: the per-item loop of  *)
(* manager.add_items_to_sales_order and the colouring of the row.          *)
(***************************************************************************)
ProcessRowMerge ==
    \E items \in RowItemLists :
    \E envs \in [1..Len(items) -> CallEnvs] :
        LET r == add_items_to_sales_order(order, items, envs)
        IN  /\ calls < MaxCalls
            /\ calls' = calls + 1
            /\ op' = "row"
            /\ op_items' = items
            /\ op_before' = order
            /\ op_result' = [success |-> r.success,
                             successful |-> r.successful,
                             failed |-> r.failed]
            /\ row_colour' = colour_of(r.success)
            /\ http' = r.http
            /\ order' = r.order
            /\ UNCHANGED <<monitorVars, callVars, loopVars>>

\* A call of sos_api.add_item_to_sales_order (add_or_update_item_in_sales_order
\* is the call with force_new_line False).
ApiAddItem ==
    \E id \in ItemIds, f \in BOOLEAN, d \in RowDates :
    \E env \in CallEnvs :
        LET r == add_item_to_sales_order(order, id, 2, f, d, env)
        IN  /\ calls < MaxCalls
            /\ calls' = calls + 1
            /\ op' = "add_item"
            /\ op_items' = <<Item(id, 2, f, d)>>
            /\ op_before' = order
            /\ op_result' = [success |-> r.success]
            /\ row_colour' = "none"
            /\ http' = r.http
            /\ order' = r.order
            /\ UNCHANGED <<monitorVars, callVars, loopVars>>

\* A call of sos_api.add_multiple_items_to_sales_order.
ApiAddMultiple ==
    \E items \in ApiItemLists :
    \E env \in MultiEnvs(Len(items)) :
        LET r == add_multiple_items_to_sales_order(order, items, env)
        IN  /\ calls < MaxCalls
            /\ calls' = calls + 1
            /\ op' = "add_multiple"
            /\ op_items' = items
            /\ op_before' = order
            /\ op_result' = [success |-> r.success,
                             price_errors |-> r.price_errors]
            /\ row_colour' = "none"
            /\ http' = r.http
            /\ order' = r.order
            /\ UNCHANGED <<monitorVars, callVars, loopVars>>

InitMerge ==
    /\ sheet = <<>>
    /\ nextKey = 0
    /\ clock = 0
    /\ prev_hash = NoHash
    /\ previous_completed_rows = NoneRows
    /\ processed_rows_cache = {}
    /\ new_completed_rows = <<>>
    /\ processed = <<>>
    /\ edited = {}
    /\ last_fetch = "none"
    /\ edits = 0
    /\ first_ok = 0
    /\ row_results = <<>>
    /\ order \in {InitOrder(ls) : ls \in InitLines}
    /\ op = "none"
    /\ op_items = <<>>
    /\ op_before = order
    /\ op_result = [success |-> FALSE]
    /\ row_colour = "none"
    /\ http = <<>>
    /\ calls = 0
    /\ inp = NoCall
    /\ out = NoCall
    /\ LoopAtRest

\* The monitor's merges, row after row.
NextRow == ProcessRowMerge

SpecRow == InitMerge /\ [][NextRow]_vars

\* Calls of the merge functions of sos_api.
NextApi ==
    \/ ApiAddItem
    \/ ApiAddMultiple

SpecApi == InitMerge /\ [][NextApi]_vars

(***************************************************************************)
(* Claims about the merge (specifications SpecRow and SpecApi).            *)
(***************************************************************************)
GetIndexes == {i \in 1..Len(http) : http[i].m = "GET"}
PutIndexes == {i \in 1..Len(http) : http[i].m = "PUT"}

\* The order object the GET before request i returned.
ReadBefore(i) ==
    data_of(http[MaxOf({j \in GetIndexes : j < i})].body)

\* Line i of the remote order is new or differs from what it was before the
\* operation.
Touched(i) ==
    i > Len(op_before.lines) \/ order.lines[i] # op_before.lines[i]

DueDateOf(item) ==
    IF item.row_date # "" THEN item.row_date ELSE get_current_date_string

\* C4 (as claimed): after a merge every line it appended or incremented has
\* amount = round(quantity * unitprice, 2) for the line's own stored
\* quantity and unit price, on both merge paths.
C4_AmountInvariant ==
    \A i \in 1..Len(order.lines) :
        Touched(i) =>
            order.lines[i].amount
                = calculate_line_amount(order.lines[i].quantity,
                                        order.lines[i].unitprice)

\* C5 (as claimed): merging a row's item requests reads the order once and
\* writes it with a single PUT that carries the lines of all the row's
\* items.
C5_OneReadOnePut ==
    (op = "row" /\ \E i \in PutIndexes : http[i].ok) =>
        /\ Cardinality(GetIndexes) = 1
        /\ Cardinality(PutIndexes) = 1
        /\ \A i \in PutIndexes :
               Len(http[i].body.lines)
                   = Len(op_before.lines) + Len(op_items)

\* C6 (as claimed): the body of a merge's PUT holds none of the read-only
\* fields (identifier, computed total, sync token).
C6_ReadOnlyStripped ==
    \A i \in PutIndexes : DOMAIN http[i].body \cap ReadOnlyFields = {}

\* C7: every writable header field other than the lines has, in the body of
\* a merge's PUT, the value the merge's GET returned.
C7_HeaderEchoed ==
    \A i \in PutIndexes :
        \A f \in WritableHeaderFields :
            /\ f \in DOMAIN http[i].body
            /\ http[i].body[f] = ReadBefore(i)[f]

\* C7 witness: a merge wrote lines that differ from the ones it read, and
\* the header fields it read hold values.
C7_Witness ==
    \E i \in PutIndexes :
        /\ http[i].ok
        /\ http[i].body.lines # ReadBefore(i).lines
        /\ \A f \in WritableHeaderFields : ReadBefore(i)[f] # ""

\* C8: with force_new_line (the monitor's mode) every successful merge of
\* an item appends exactly one line with the requested quantity and the
\* item's row_date, or today without one, as due date, and the lines the
\* order held before are unchanged, also when one holds the same item id.
C8_ForceNewLineAppends ==
    op = "row" =>
        LET n0 == Len(op_before.lines)
            added == op_result.successful
        IN  /\ Len(order.lines) = n0 + Len(added)
            /\ SubSeq(order.lines, 1, n0) = op_before.lines
            /\ \A k \in 1..Len(added) :
                   /\ order.lines[n0 + k].item = added[k].item_id
                   /\ order.lines[n0 + k].quantity = added[k].quantity
                   /\ order.lines[n0 + k].duedate = DueDateOf(added[k])

\* C8 witness: a row without a date merged two items, one of them already on
\* a line of the order.
C8_Witness ==
    /\ op = "row"
    /\ Len(op_result.successful) = 2
    /\ op_items[1].row_date = ""
    /\ \E i \in 1..Len(op_before.lines) :
           op_before.lines[i].item = op_items[1].item_id

LineNumbers(lines) == {lines[i].lineNumber : i \in 1..Len(lines)}

\* C9: lineNumbers stay pairwise distinct through any sequence of merges,
\* and every appended line's lineNumber is the maximum of the lineNumbers
\* present when it was appended (0 when there is none) plus 1.
C9_LineNumbersUnique ==
    /\ Cardinality(LineNumbers(order.lines)) = Len(order.lines)
    /\ \A i \in (Len(op_before.lines) + 1)..Len(order.lines) :
           order.lines[i].lineNumber
               = MaxOf(LineNumbers(SubSeq(order.lines, 1, i - 1))) + 1

\* C9 witness: the second merge in a row, a multi-item one, appended a line
\* to an order whose last line does not carry the largest lineNumber.
C9_Witness ==
    /\ calls = 2
    /\ op = "add_multiple"
    /\ Len(order.lines) > Len(op_before.lines)
    /\ Len(op_before.lines) >= 2
    /\ op_before.lines[Len(op_before.lines)].lineNumber
           < MaxOf(LineNumbers(op_before.lines))

\* C10 (as claimed): when a PUT fails during a row's merge the remote order
\* is as it was before the row's merge began, failure is reported and the
\* row is coloured as failed.
C10_PutFailureLeavesOrder ==
    (op = "row" /\ \E i \in PutIndexes : ~http[i].ok) =>
        /\ order = op_before
        /\ ~op_result.success
        /\ row_colour = "error"

\* C11: when the GET of the order fails, a merge (of one item or of several)
\* sends nothing after it, neither a price lookup nor a PUT, reports failure
\* and leaves the remote order as it was.
C11_GetFailureStops ==
    (op \in {"add_item", "add_multiple"}
         /\ \E i \in GetIndexes : ~http[i].ok) =>
        /\ Len(http) = 1
        /\ http[1].m = "GET"
        /\ ~op_result.success
        /\ order = op_before

\* C11 witness: the second merge, of several items into an order that holds
\* lines, had its GET fail.
C11_Witness ==
    /\ calls = 2
    /\ op = "add_multiple"
    /\ Len(op_items) >= 2
    /\ order.lines # <<>>
    /\ http # <<>>
    /\ ~http[1].ok

(***************************************************************************)
(* Date cells (column A) and their parsing.                                *)
(*                                                                         *)
(* The text of a date cell is three numbers written in decimal, each with  *)
(* w digits, joined by a separator, optionally followed by a blank and a   *)
(* time of day: [f |-> <<[v |-> 9, w |-> 2], ..>>, sep |-> "/"] is the     *)
(* text "09/../..".  Cells that are empty, hold only blanks, or hold other *)
(* text are kinds of their own.                                            *)
(***************************************************************************)
Field(v, w) == [v |-> v, w |-> w]

EmptyCell == [kind |-> "empty"]
BlankCell == [kind |-> "blank"]
TextCell == [kind |-> "text"]

DateText(a, b, c, sep, time) ==
    [kind |-> "date", f |-> <<a, b, c>>, sep |-> sep, time |-> time]

\* The digit groups the date cells of the model are made of.
DateFields ==
    {Field(9, 1), Field(2, 2), Field(15, 2), Field(30, 2), Field(25, 2),
     Field(2025, 4)}

DateCells ==
    {EmptyCell, BlankCell, TextCell}
        \cup {DateText(a, b, c, sep, time) :
                 a \in DateFields, b \in DateFields, c \in DateFields,
                 sep \in {"-", "/"}, time \in BOOLEAN}

\* A strptime format: three directives joined by one separator.
Format(sep, d1, d2, d3) == [sep |-> sep, d |-> <<d1, d2, d3>>]

\* The text matches one directive (the regular expressions of strptime).
Matches(directive, field) ==
    CASE directive = "Y" -> field.w = 4
      [] directive = "y" -> field.w = 2
      [] directive = "m" -> field.w <= 2 /\ field.v >= 1 /\ field.v <= 12
      [] directive = "d" -> field.w <= 2 /\ field.v >= 1 /\ field.v <= 31

\* %y: 00..68 are 2000..2068, 69..99 are 1969..1999.
YearOf(directive, field) ==
    IF directive = "Y" THEN field.v
    ELSE IF field.v <= 68 THEN 2000 + field.v ELSE 1900 + field.v

IsLeap(y) == (y % 4 = 0 /\ y % 100 # 0) \/ y % 400 = 0

DaysInMonth(y, m) ==
    IF m = 2 THEN (IF IsLeap(y) THEN 29 ELSE 28)
    ELSE IF m \in {4, 6, 9, 11} THEN 30 ELSE 31

NoDate == [ok |-> FALSE, year |-> 0, month |-> 0, day |-> 0]

\* Position of a directive in a format.
DirectiveIndex(fmt, directive) ==
    CHOOSE k \in 1..3 : fmt.d[k] = directive \/ (directive = "Y" /\ fmt.d[k] = "y")

\* datetime.strptime(date_part, fmt); ok FALSE stands for ValueError.
strptime(date_part, fmt) ==
    IF date_part.kind # "date" THEN NoDate
    ELSE IF date_part.time \/ date_part.sep # fmt.sep THEN NoDate
    ELSE IF \E k \in 1..3 : ~Matches(fmt.d[k], date_part.f[k]) THEN NoDate
    ELSE LET ky == DirectiveIndex(fmt, "Y")
             y == YearOf(fmt.d[ky], date_part.f[ky])
             m == date_part.f[DirectiveIndex(fmt, "m")].v
             d == date_part.f[DirectiveIndex(fmt, "d")].v
         IN  IF y < 1 \/ d > DaysInMonth(y, m) THEN NoDate
             ELSE [ok |-> TRUE, year |-> y, month |-> m, day |-> d]

\* date_str.split(' ')[0] if ' ' in date_str else date_str
date_part_of(cell) ==
    IF cell.kind = "date" /\ cell.time THEN [cell EXCEPT !.time = FALSE]
    ELSE cell

\* The loop over a list of formats: the first format that parses wins.
RECURSIVE parse_with(_, _, _)
parse_with(date_part, formats, i) ==
    IF i > Len(formats) THEN NoDate
    ELSE LET parsed_date == strptime(date_part, formats[i])
         IN  IF parsed_date.ok THEN parsed_date
             ELSE parse_with(date_part, formats, i + 1)

\* date_formats of parse_month_from_date.
date_formats ==
    << Format("-", "Y", "m", "d"),
       Format("/", "m", "d", "Y"),
       Format("/", "d", "m", "Y"),
       Format("-", "m", "d", "Y"),
       Format("-", "d", "m", "Y"),
       Format("/", "Y", "m", "d"),
       Format("/", "d", "m", "y"),
       Format("/", "m", "d", "y") >>

\* strftime("%B")
MonthNames ==
    <<"January", "February", "March", "April", "May", "June", "July",
      "August", "September", "October", "November", "December">>

\* month_name[:3].title()
MonthAbbrevs ==
    <<"Jan", "Feb", "Mar", "Apr", "May", "Jun", "Jul", "Aug", "Sep", "Oct",
      "Nov", "Dec">>

\* The date parse_month_from_date takes the month from; ok FALSE: None.
parsed_month_date(date_string) ==
    IF date_string.kind \in {"empty", "blank"} THEN NoDate
    ELSE parse_with(date_part_of(date_string), date_formats, 1)

\* parse_month_from_date as it would be if the month of today stood in for
\* a date that does not parse.
parse_month_from_date_Today(date_string) ==
    LET parsed_date == parsed_month_date(date_string)
    IN  IF parsed_date.ok THEN MonthNames[parsed_date.month] ELSE "November"

\* parse_month_from_date; "" stands for None.
parse_month_from_date(date_string) ==
    LET parsed_date == parsed_month_date(date_string)
    IN  IF parsed_date.ok THEN MonthNames[parsed_date.month] ELSE ""

month_abbrev_of(month_name) ==
    MonthAbbrevs[CHOOSE i \in 1..12 : MonthNames[i] = month_name]

\* build_search_string; ok FALSE stands for the result (None, None).
NoComponents ==
    [ok |-> FALSE, search_string |-> "", month_name |-> "", month_abbrev |-> ""]

build_search_string(column_b_value, column_a_date) ==
    IF column_b_value = "" THEN NoComponents
    ELSE LET month_name == parse_month_from_date(column_a_date)
         IN  IF month_name = "" THEN NoComponents
             ELSE [ok |-> TRUE,
                   search_string |-> Strip(column_b_value),
                   month_name |-> month_name,
                   month_abbrev |-> month_abbrev_of(month_name)]

\* The pattern list with the abbreviated month tried first.
search_patterns_ShortFirst(search_string, full_month, short_month) ==
    << search_string \o " " \o short_month,
       search_string \o "  " \o short_month,
       search_string \o " " \o full_month,
       search_string \o "  " \o full_month >>

\* search_patterns of search_and_update_sales_orders.
search_patterns(search_string, full_month, short_month) ==
    << search_string \o " " \o full_month,
       search_string \o "  " \o full_month,
       search_string \o " " \o short_month,
       search_string \o "  " \o short_month >>

(***************************************************************************)
(* extract_items_from_sheet_data.                                          *)
(*                                                                         *)
(* A worksheet row is <<date cell, identifier, unit, quantity cells..,     *)
(* done cell>>; the first worksheet row holds the item ids of the columns, *)
(* the second their names.  Column indexes are 0-based as in the code:     *)
(* column col_index is element col_index + 1 of a row.                     *)
(***************************************************************************)
start_column == 3

\* date_formats of extract_items_from_sheet_data.
row_date_formats ==
    << Format("-", "Y", "m", "d"),
       Format("/", "m", "d", "Y"),
       Format("/", "d", "m", "Y"),
       Format("-", "m", "d", "Y"),
       Format("-", "d", "m", "Y") >>

TwoDigits(n) == IF n < 10 THEN "0" \o ToString(n) ELSE ToString(n)

\* parsed_date.strftime("%Y-%m-%d")
format_date(parsed_date) ==
    ToString(parsed_date.year) \o "-" \o TwoDigits(parsed_date.month)
        \o "-" \o TwoDigits(parsed_date.day)

\* The row_date of extract_items_from_sheet_data; "" stands for None.
row_date_of(cell) ==
    IF cell.kind = "empty" THEN ""
    ELSE LET parsed_date == parse_with(date_part_of(cell), row_date_formats, 1)
         IN  IF parsed_date.ok THEN format_date(parsed_date) ELSE ""

\* float(quantity_value) on the quantity cells of the model; ok FALSE stands
\* for ValueError.
float_of(quantity_value) ==
    CASE quantity_value = "3" -> [ok |-> TRUE, v |-> 3]
      [] quantity_value = " 2 " -> [ok |-> TRUE, v |-> 2]
      [] quantity_value = "5" -> [ok |-> TRUE, v |-> 5]
      [] quantity_value = "0" -> [ok |-> TRUE, v |-> 0]
      [] quantity_value = "-1" -> [ok |-> TRUE, v |-> -1]
      [] OTHER -> [ok |-> FALSE, v |-> 0]

\* The sentinel test switched off.
is_sentinel_Off(item_id_clean) == FALSE

\* if item_id_clean == "0": the column is skipped.
is_sentinel(item_id_clean) == item_id_clean = "0"

\* The dictionary appended to items_to_add.
ExtractedItem(item_id_clean, quantity, name, col_index, row_date) ==
    [item_id |-> item_id_clean, quantity |-> quantity, name |-> name,
     column |-> col_index, force_new_line |-> TRUE, row_date |-> row_date]

\* The loop over the columns; the price lookup is informational and made
\* only with a token.
RECURSIVE extract_columns(_, _, _, _, _, _)
extract_columns(item_ids, item_names, quantities, row_date, env, col_index) ==
    IF col_index >= Len(quantities) THEN [items |-> <<>>, http |-> <<>>]
    ELSE LET rest == extract_columns(item_ids, item_names, quantities,
                                     row_date, env, col_index + 1)
             quantity_value == quantities[col_index + 1]
             quantity == float_of(quantity_value)
             item_id == IF col_index < Len(item_ids)
                        THEN item_ids[col_index + 1] ELSE ""
             item_name == IF col_index < Len(item_names)
                          THEN item_names[col_index + 1] ELSE ""
             item_id_clean == Strip(item_id)
             item_name_clean == IF item_name # "" THEN Strip(item_name)
                                ELSE "Item " \o item_id_clean
         IN  IF quantity_value = "" THEN rest
             ELSE IF ~quantity.ok \/ quantity.v <= 0 THEN rest
             ELSE IF item_id = "" THEN rest
             ELSE IF is_sentinel(item_id_clean) THEN rest
             ELSE [items |-> <<ExtractedItem(item_id_clean, quantity.v,
                                             item_name_clean, col_index,
                                             row_date)>> \o rest.items,
                   http |-> (IF env.token # NoToken
                             THEN <<PriceRequest(env.call.price_ok,
                                                 item_id_clean)>>
                             ELSE <<>>) \o rest.http]

extract_items_from_sheet_data(sheet_data, row_data, env) ==
    IF Len(sheet_data) < 3 THEN [items |-> <<>>, http |-> <<>>]
    ELSE LET quantities == row_data.data
             row_date == IF Len(quantities) > 0
                         THEN row_date_of(quantities[1]) ELSE ""
         IN  extract_columns(sheet_data[1], sheet_data[2], quantities,
                             row_date, env, start_column)

(***************************************************************************)
(* search_and_update_sales_orders.  env.token is the state of the access   *)
(* token, env.results[i] the outcome of the search for pattern i (the      *)
(* orders are those of the "data" list of the response), env.call the      *)
(* outcome of the requests of the merge.                                   *)
(***************************************************************************)
\* What the authentication collaborators answer during one call:
\* test_connection with the held token, refresh_access_token (which fails
\* when no refresh token is held), authenticate.  access_token is SOSAuth's
\* _access_token when the call begins and refreshed_token the access_token
\* of the refresh response (tokens.get("access_token"), None when the
\* response carries none); here SOSAuth holds a token and the response
\* carries one, TokenInputs draws the other cases.
AuthOutcomes(probe_ok, refresh_ok, authenticate_ok) ==
    [probe_ok |-> probe_ok, refresh_ok |-> refresh_ok,
     authenticate_ok |-> authenticate_ok,
     access_token |-> "valid", refreshed_token |-> "refreshed"]

\* SOSAuth's _access_token after authenticate(): reset to None when the flow
\* starts, and True is returned only if a token was received.
authenticate(authenticate_ok) ==
    IF authenticate_ok THEN "authenticated" ELSE NoToken

\* ensure_valid_sos_token as it would be if a successful refresh were
\* followed by the full re-authentication all the same.
ensure_valid_sos_token_AuthenticateAfterRefresh(token, auth) ==
    IF token = NoToken
    THEN [ok |-> auth.authenticate_ok,
          token |-> IF auth.authenticate_ok THEN "authenticated" ELSE token,
          auth_token |-> authenticate(auth.authenticate_ok),
          calls |-> <<"authenticate">>]
    ELSE IF auth.probe_ok
    THEN [ok |-> TRUE, token |-> token, auth_token |-> auth.access_token,
          calls |-> <<"test_connection">>]
    ELSE [ok |-> auth.refresh_ok \/ auth.authenticate_ok,
          token |-> IF auth.authenticate_ok THEN "authenticated"
                    ELSE IF auth.refresh_ok THEN auth.refreshed_token
                    ELSE token,
          auth_token |-> authenticate(auth.authenticate_ok),
          calls |-> <<"test_connection", "refresh_access_token",
                      "authenticate">>]

\* ensure_valid_sos_token: the value returned, the module global
\* _sos_access_token afterwards, SOSAuth's _access_token afterwards, and the
\* calls made to the collaborators, in order.  A successful refresh stores
\* whatever access_token the response carried; a failed one leaves SOSAuth's
\* token alone, and authenticate() then resets it.
ensure_valid_sos_token(token, auth) ==
    IF token = NoToken
    THEN [ok |-> auth.authenticate_ok,
          token |-> IF auth.authenticate_ok THEN "authenticated" ELSE token,
          auth_token |-> authenticate(auth.authenticate_ok),
          calls |-> <<"authenticate">>]
    ELSE IF auth.probe_ok
    THEN [ok |-> TRUE, token |-> token, auth_token |-> auth.access_token,
          calls |-> <<"test_connection">>]
    ELSE IF auth.refresh_ok
    THEN [ok |-> TRUE, token |-> auth.refreshed_token,
          auth_token |-> auth.refreshed_token,
          calls |-> <<"test_connection", "refresh_access_token">>]
    ELSE [ok |-> auth.authenticate_ok,
          token |-> IF auth.authenticate_ok THEN "authenticated" ELSE token,
          auth_token |-> authenticate(auth.authenticate_ok),
          calls |-> <<"test_connection", "refresh_access_token",
                      "authenticate">>]

SearchRequest(ok, pattern) == [m |-> "SEARCH", ok |-> ok, body |-> pattern]

\* The order object a search returns; id "" stands for an object without id.
FoundOrder(id, total) == [id |-> id, number |-> "HA 101 September", total |-> total]

\* The inner loop as it would be if a later copy of an id took the place of
\* the earlier one.
RECURSIVE append_unseen_KeepLast(_, _, _)
append_unseen_KeepLast(all_orders, orders, k) ==
    IF k > Len(orders) THEN all_orders
    ELSE IF \E e \in 1..Len(all_orders) : all_orders[e].id = orders[k].id
         THEN append_unseen_KeepLast(
                  [e \in 1..Len(all_orders) |->
                      IF all_orders[e].id = orders[k].id THEN orders[k]
                      ELSE all_orders[e]],
                  orders, k + 1)
         ELSE append_unseen_KeepLast(Append(all_orders, orders[k]), orders, k + 1)

\* for order in orders: append it unless an order of all_orders has its id.
RECURSIVE append_unseen(_, _, _)
append_unseen(all_orders, orders, k) ==
    IF k > Len(orders) THEN all_orders
    ELSE IF \E e \in 1..Len(all_orders) : all_orders[e].id = orders[k].id
         THEN append_unseen(all_orders, orders, k + 1)
         ELSE append_unseen(Append(all_orders, orders[k]), orders, k + 1)

\* The loop over the search patterns as it would be if a failed search ended
\* it.
RECURSIVE collect_orders_StopAtFailure(_, _, _)
collect_orders_StopAtFailure(all_orders, results, i) ==
    IF i > Len(results) THEN all_orders
    ELSE IF ~results[i].ok THEN all_orders
    ELSE collect_orders_StopAtFailure(
             append_unseen(all_orders, results[i].orders, 1), results, i + 1)

\* The loop over the search patterns: a failed search adds nothing.
RECURSIVE collect_orders(_, _, _)
collect_orders(all_orders, results, i) ==
    IF i > Len(results) THEN all_orders
    ELSE collect_orders(IF results[i].ok
                        THEN append_unseen(all_orders, results[i].orders, 1)
                        ELSE all_orders,
                        results, i + 1)

\* The result of a call that reached no merge: token and auth_calls are the
\* module global afterwards and the calls ensure_valid_sos_token made.
NoMerge ==
    [success |-> FALSE, message |-> "", all_orders |-> <<>>, order_id |-> "",
     order_before |-> IdleOrder, order_after |-> IdleOrder, http |-> <<>>,
     token |-> NoToken, auth_calls |-> <<>>]

\* env.remote is the remote order the searches resolve to, as it is when the
\* call begins.
search_and_update_sales_orders(search_string, full_month, short_month, items_to_add, env) ==
    LET ensured == ensure_valid_sos_token(env.token, env.auth)
        NoMergeYet == [NoMerge EXCEPT !.token = ensured.token,
                                      !.auth_calls = ensured.calls,
                                      !.order_before = env.remote,
                                      !.order_after = env.remote]
    IN  IF ~ensured.ok
        THEN [NoMergeYet EXCEPT !.message = "No access token"]
        ELSE LET patterns == search_patterns(search_string, full_month, short_month)
                 all_orders == collect_orders(<<>>, env.results, 1)
                 searches == [i \in 1..Len(patterns) |->
                                 SearchRequest(env.results[i].ok, patterns[i])]
             IN  IF all_orders = <<>>
                 THEN [NoMergeYet EXCEPT !.message = "No sales orders found",
                                         !.http = searches]
                 ELSE IF all_orders[1].id = ""
                 THEN [NoMergeYet EXCEPT !.message = "First order has no ID",
                                         !.all_orders = all_orders,
                                         !.http = searches]
                 ELSE LET order_id == all_orders[1].id
                          remote == [env.remote EXCEPT !.id = order_id]
                      IN  CHOOSE result \in
                              {[success |-> r.success,
                                message |-> IF r.success THEN ""
                                            ELSE "Failed to update order",
                                all_orders |-> all_orders,
                                order_id |-> order_id,
                                order_before |-> remote,
                                order_after |-> r.order,
                                http |-> searches \o r.http,
                                token |-> ensured.token,
                                auth_calls |-> ensured.calls] :
                                  r \in {add_items_to_sales_order(
                                             remote, items_to_add,
                                             [i \in 1..Len(items_to_add) |->
                                                 env.call])}} : TRUE

(***************************************************************************)
(* process_completed_row: validation, search components, extraction,       *)
(* resolution and merge, colour of the row; token is the module global     *)
(* _sos_access_token afterwards.                                           *)
(***************************************************************************)
\* data[0].strip() on a date cell.
StripCell(cell) == IF cell.kind = "blank" THEN EmptyCell ELSE cell

validate_row_data(row_data) ==
    /\ Len(row_data.data) >= 2
    /\ StripCell(row_data.data[1]).kind # "empty"
    /\ Strip(row_data.data[2]) # ""

\* colour_calls: the color_row requests of the call, in order; colour: the
\* colour of the last of them.
RowFailed(error_reason) ==
    [result |-> FALSE, colour |-> "error", colour_calls |-> <<"error">>,
     reason |-> error_reason,
     components |-> NoComponents, items |-> <<>>, merge |-> NoMerge,
     http |-> <<>>, token |-> NoToken]

\* process_completed_row as it would be if the try block did not return
\* after its color_row call: the colouring after the try block (which
\* reads the local `success`, False on the no-items path) runs as well.
process_completed_row_NoReturn(sheet_data, row_data, env) ==
    IF ~validate_row_data(row_data)
    THEN [RowFailed("Invalid row data") EXCEPT !.token = env.token]
    ELSE LET column_a_date == StripCell(row_data.data[1])
             column_b_value == Strip(row_data.data[2])
             search_components ==
                 build_search_string(column_b_value, column_a_date)
         IN  IF ~search_components.ok \/ search_components.search_string = ""
             THEN [RowFailed("Could not build search string")
                       EXCEPT !.token = env.token]
             ELSE LET extracted ==
                          extract_items_from_sheet_data(sheet_data, row_data, env)
                  IN  IF extracted.items = <<>>
                      THEN [result |-> FALSE, colour |-> "error",
                            colour_calls |-> <<"success", "error">>,
                            reason |-> "No items found to add",
                            components |-> search_components,
                            items |-> <<>>, merge |-> NoMerge,
                            http |-> extracted.http, token |-> env.token]
                      ELSE CHOOSE row \in
                               {[result |-> r.success,
                                 colour |-> colour_of(r.success),
                                 colour_calls |-> <<colour_of(r.success),
                                                   colour_of(r.success)>>,
                                 reason |-> r.message,
                                 components |-> search_components,
                                 items |-> extracted.items,
                                 merge |-> r,
                                 http |-> extracted.http \o r.http,
                                 token |-> r.token] :
                                   r \in {search_and_update_sales_orders(
                                              search_components.search_string,
                                              search_components.month_name,
                                              search_components.month_abbrev,
                                              extracted.items, env)}} : TRUE

process_completed_row(sheet_data, row_data, env) ==
    IF ~validate_row_data(row_data)
    THEN [RowFailed("Invalid row data") EXCEPT !.token = env.token]
    ELSE LET column_a_date == StripCell(row_data.data[1])
             column_b_value == Strip(row_data.data[2])
             search_components ==
                 build_search_string(column_b_value, column_a_date)
         IN  IF ~search_components.ok \/ search_components.search_string = ""
             THEN [RowFailed("Could not build search string")
                       EXCEPT !.token = env.token]
             ELSE LET extracted ==
                          extract_items_from_sheet_data(sheet_data, row_data, env)
                  IN  IF extracted.items = <<>>
                      THEN [result |-> TRUE, colour |-> "success",
                            colour_calls |-> <<"success">>,
                            reason |-> "No items found to add",
                            components |-> search_components,
                            items |-> <<>>, merge |-> NoMerge,
                            http |-> extracted.http, token |-> env.token]
                      ELSE CHOOSE row \in
                               {[result |-> r.success,
                                 colour |-> colour_of(r.success),
                                 colour_calls |-> <<colour_of(r.success)>>,
                                 reason |-> r.message,
                                 components |-> search_components,
                                 items |-> extracted.items,
                                 merge |-> r,
                                 http |-> extracted.http \o r.http,
                                 token |-> r.token] :
                                   r \in {search_and_update_sales_orders(
                                              search_components.search_string,
                                              search_components.month_name,
                                              search_components.month_abbrev,
                                              extracted.items, env)}} : TRUE

(***************************************************************************)
(* Inputs of the calls studied on their own.                               *)
(***************************************************************************)
\* Column B: what identifies the order.
IdCells == {"HA 101", " HA 101 ", "", "  ", "B7"}

\* Cells of the item-id row and quantity cells of a data row.
ItemIdCells == {"42", " 7 ", "0", " 0", "", "  "}
QuantityCells == {"", "3", "0", "-1", "abc", " 2 "}

\* The item-id row and the name row of the worksheet for two item columns
\* (columns D and E); column C holds a unit count, the last column the
\* completion marker.
ItemIdRow(h3, h4) == <<"", "", "99", h3, h4, "">>
ItemNameRow == <<"Date", "Property", "Units", "Widget", "", "Done?">>

DataRow(date, id, q3, q4) ==
    [row_number |-> 3, data |-> <<date, id, "5", q3, q4, "Yes">>]

\* get_all_values() of the worksheet of one data row.
SheetData(item_ids, row_data) == <<item_ids, ItemNameRow, row_data.data>>

\* Date cells that parse with a format of both lists, of the longer list
\* only, or of none.
Date_2025_09_15 ==
    DateText(Field(2025, 4), Field(9, 2), Field(15, 2), "-", FALSE)
Date_09_15_2025_time ==
    DateText(Field(9, 2), Field(15, 2), Field(2025, 4), "/", TRUE)
Date_2025_09_15_slash ==
    DateText(Field(2025, 4), Field(9, 2), Field(15, 2), "/", FALSE)
Date_15_02_25 ==
    DateText(Field(15, 2), Field(2, 2), Field(25, 2), "/", FALSE)
Date_2025_02_30 ==
    DateText(Field(2025, 4), Field(2, 2), Field(30, 2), "-", FALSE)

RowDateCells ==
    {EmptyCell, BlankCell, TextCell, Date_2025_09_15, Date_09_15_2025_time,
     Date_2025_09_15_slash, Date_15_02_25, Date_2025_02_30}

\* Outcomes of one pattern search.
\* error is the message make_request returns with a failure: status 401 has
\* a message of its own.
AuthenticationFailed == "Authentication failed - token may be expired"
SearchFailed == [ok |-> FALSE, orders |-> <<>>, error |-> "API error (500)"]
SearchUnauthorized ==
    [ok |-> FALSE, orders |-> <<>>, error |-> AuthenticationFailed]
SearchFound(orders) == [ok |-> TRUE, orders |-> orders, error |-> ""]

PatternResults ==
    { SearchFailed,
      SearchFound(<<>>),
      SearchFound(<<FoundOrder("SO1", 100)>>),
      SearchFound(<<FoundOrder("SO2", 100), FoundOrder("SO1", 200)>>),
      SearchFound(<<FoundOrder("SO1", 200), FoundOrder("", 100)>>),
      SearchFound(<<FoundOrder("", 100)>>) }

\* Outcomes of the four searches of a processed row.
RowSearchResults ==
    LET found == SearchFound(<<FoundOrder("SO1", 100)>>)
        empty == SearchFound(<<>>)
    IN  { <<SearchFailed, SearchFailed, SearchFailed, SearchFailed>>,
          <<empty, empty, empty, empty>>,
          <<SearchFailed, empty, SearchFailed, empty>>,
          <<found, empty, empty, empty>>,
          <<SearchFailed, SearchFailed, found, found>>,
          <<empty, SearchFailed, empty, found>> }

\* Outcomes of the requests of a merge made for a row or after a search.
RowCallEnvs == {e \in CallEnvs : e.price_ok = e.put_ok}

NoResults == [i \in 1..4 |-> SearchFailed]

\* The environment of a call: token, searches, requests of the merge.
AuthUp == AuthOutcomes(TRUE, TRUE, TRUE)
AuthDown == AuthOutcomes(FALSE, FALSE, FALSE)

\* The environment of a call: the token held (with it every authentication
\* call succeeds, without it none does), the searches, the requests of the
\* merge, the remote order.
Env(token, results, call) ==
    [token |-> token, auth |-> IF token = NoToken THEN AuthDown ELSE AuthUp,
     results |-> results, call |-> call, remote |-> InitOrder(<<Line42>>)]

TokenStates == {"valid", "none"}

BuildInputs ==
    {[kind |-> "build", column_b_value |-> b, column_a_date |-> StripCell(a)] :
        b \in IdCells, a \in DateCells}

ExtractEnvs ==
    {Env("none", NoResults, [get_ok |-> FALSE, price_ok |-> FALSE, put_ok |-> FALSE])}
        \cup {Env("valid", NoResults, [get_ok |-> FALSE, price_ok |-> p, put_ok |-> FALSE]) :
                 p \in BOOLEAN}

ExtractInputs ==
    {[kind |-> "extract", item_ids |-> ItemIdRow("42", " 7 "),
      row_data |-> DataRow(d, "HA 101", "3", " 2 "),
      env |-> CHOOSE e \in ExtractEnvs : e.token = "none"] :
        d \in DateCells}
    \cup
    {[kind |-> "extract", item_ids |-> ItemIdRow(h3, h4),
      row_data |-> DataRow(Date_2025_09_15, "HA 101", q3, q4), env |-> e] :
        h3 \in ItemIdCells, h4 \in ItemIdCells,
        q3 \in QuantityCells, q4 \in QuantityCells, e \in ExtractEnvs}

SearchItems ==
    <<ExtractedItem("42", 3, "Widget", 3, "2025-09-15")>>

SearchInput(token, results, call) ==
    [kind |-> "search", search_string |-> "HA 101",
     full_month |-> "September", short_month |-> "Sep",
     items_to_add |-> SearchItems, env |-> Env(token, results, call)]

SearchInputs ==
    {SearchInput("valid", rs, c) :
        rs \in [1..4 -> PatternResults], c \in RowCallEnvs}
    \cup {SearchInput("none", NoResults, c) : c \in RowCallEnvs}
    \cup {SearchInput("valid", rs, c) :
             rs \in [1..4 -> {SearchUnauthorized,
                              SearchFound(<<FoundOrder("SO1", 100)>>)}],
             c \in RowCallEnvs}

ProcessInputs ==
    {[kind |-> "process", item_ids |-> ItemIdRow("42", " 7 "),
      row_data |-> DataRow(d, b, q3, q4), env |-> Env(t, rs, c)] :
        d \in RowDateCells, b \in {"HA 101", " HA 101 ", "  "},
        q3 \in {"", "3"}, q4 \in {"", " 2 "},
        t \in TokenStates, rs \in RowSearchResults, c \in RowCallEnvs}

\* Rows of a worksheet handed to the completion filter: empty, too short
\* for a second column, holding the marker in the first or the second
\* column, holding a "yes" in the first or the second column, holding
\* something else.
FilterRows ==
    { <<>>, <<"r1">>, <<"Done?">>, <<"Date", " Done?">>, <<"r1", "yes ">>,
      <<"YES", "">>, <<"r1", "no">> }

MaxSnapshotRows == 4

FilterInputs ==
    {[kind |-> "filter", data |-> d] :
        d \in UNION {[1..n -> FilterRows] : n \in 0..MaxSnapshotRows}}

\* The token held when ensure_valid_sos_token is called, and what the
\* authentication collaborators answer.  SOSAuth holds no token before the
\* first authentication, the token it handed out after a success, and none
\* again after a re-authentication that failed (the engine keeps its old
\* token then).
TokenInputs ==
    UNION {{[kind |-> "token", token |-> t,
             auth |-> [AuthOutcomes(p, r, a) EXCEPT !.access_token = h,
                                                    !.refreshed_token = f]] :
               p \in BOOLEAN, r \in BOOLEAN, a \in BOOLEAN,
               h \in {NoToken, t}, f \in {NoToken, "refreshed"}} :
           t \in {NoToken, "valid"}}

(***************************************************************************)
(* The calls.                                                              *)
(***************************************************************************)
CallEnsureValidToken ==
    /\ inp.kind = "token"
    /\ out = NoCall
    /\ LET r == ensure_valid_sos_token(inp.token, inp.auth)
       IN  out' = [kind |-> "token", ok |-> r.ok, token |-> r.token,
                   auth_token |-> r.auth_token, calls |-> r.calls]
    /\ UNCHANGED <<inp, monitorVars, mergeVars, loopVars>>

CallFilterCompletedRows ==
    /\ inp.kind = "filter"
    /\ out = NoCall
    /\ out' = [kind |-> "filter", rows |-> filter_completed_rows(inp.data)]
    /\ UNCHANGED <<inp, monitorVars, mergeVars, loopVars>>

CallBuildSearchString ==
    /\ inp.kind = "build"
    /\ out = NoCall
    /\ out' = [kind |-> "build",
               components |-> build_search_string(inp.column_b_value,
                                                  inp.column_a_date)]
    /\ UNCHANGED <<inp, monitorVars, mergeVars, loopVars>>

CallExtractItems ==
    /\ inp.kind = "extract"
    /\ out = NoCall
    /\ LET r == extract_items_from_sheet_data(
                    SheetData(inp.item_ids, inp.row_data), inp.row_data, inp.env)
       IN  out' = [kind |-> "extract", items |-> r.items, http |-> r.http]
    /\ UNCHANGED <<inp, monitorVars, mergeVars, loopVars>>

CallSearchAndUpdate ==
    /\ inp.kind = "search"
    /\ out = NoCall
    /\ LET r == search_and_update_sales_orders(
                    inp.search_string, inp.full_month, inp.short_month,
                    inp.items_to_add, inp.env)
       IN  out' = [kind |-> "search", merge |-> r]
    /\ UNCHANGED <<inp, monitorVars, mergeVars, loopVars>>

ProcessCompletedRow ==
    /\ inp.kind = "process"
    /\ out = NoCall
    /\ LET r == process_completed_row(
                    SheetData(inp.item_ids, inp.row_data), inp.row_data, inp.env)
       IN  out' = [kind |-> "process", row |-> r]
    /\ UNCHANGED <<inp, monitorVars, mergeVars, loopVars>>

\* The polling loop and the merge operations at rest.
InitIdle ==
    /\ sheet = <<>>
    /\ nextKey = 0
    /\ clock = 0
    /\ prev_hash = NoHash
    /\ previous_completed_rows = NoneRows
    /\ processed_rows_cache = {}
    /\ new_completed_rows = <<>>
    /\ processed = <<>>
    /\ edited = {}
    /\ last_fetch = "none"
    /\ edits = 0
    /\ first_ok = 0
    /\ row_results = <<>>
    /\ order = IdleOrder
    /\ op = "none"
    /\ op_items = <<>>
    /\ op_before = IdleOrder
    /\ op_result = [success |-> FALSE]
    /\ row_colour = "none"
    /\ http = <<>>
    /\ calls = 0
    /\ LoopAtRest

InitCall ==
    /\ InitIdle
    /\ inp \in BuildInputs \cup ExtractInputs \cup SearchInputs
                 \cup FilterInputs \cup TokenInputs
    /\ out = NoCall

NextCall ==
    \/ CallBuildSearchString
    \/ CallExtractItems
    \/ CallSearchAndUpdate
    \/ CallFilterCompletedRows
    \/ CallEnsureValidToken

SpecCall == InitCall /\ [][NextCall]_vars

InitProcess ==
    /\ InitIdle
    /\ inp \in ProcessInputs
    /\ out = NoCall

NextProcess == ProcessCompletedRow

SpecProcess == InitProcess /\ [][NextProcess]_vars

(***************************************************************************)
(* monitor_sheet step by step: setup, then the loop of fetch, completion   *)
(* filter, one process_completed_row call per new row, update of the       *)
(* tracking variables, sleep.  The worksheet has the item-id row, the name *)
(* row and two data rows of six columns; its operators mark rows done and  *)
(* rename the marker cell while the loop runs.                             *)
(***************************************************************************)
MaxPolls == 3
MaxLoopEdits == 2

\* The name row once the marker cell was renamed.
NameRowNoMarker == <<"Date", "Property", "Units", "Widget", "", "Status">>

\* The text of a date cell of the worksheet and the cell as the date
\* functions see it.
DateCellOf(text) ==
    CASE text = "2025-09-15" -> Date_2025_09_15
      [] text = "" -> EmptyCell
      [] OTHER -> TextCell

LoopRow(date, id, q3, q4) == <<date, id, "5", q3, q4, "">>

\* Data rows: two rows for the same order, with one item each; the first
\* row already marked done when the program starts; a row whose date does
\* not parse or whose identifier is missing before a good row.
LoopSheets ==
    { <<LoopRow("2025-09-15", "HA 101", "3", ""),
        LoopRow("2025-09-15", "HA 101", "", " 2 ")>>,
      <<[LoopRow("2025-09-15", "HA 101", "3", "") EXCEPT ![6] = "Yes"],
        LoopRow("2025-09-15", "HA 101", "", " 2 ")>>,
      <<LoopRow("soon", "HA 101", "3", ""),
        LoopRow("2025-09-15", "HA 101", "", " 2 ")>>,
      <<LoopRow("2025-09-15", "", "3", ""),
        LoopRow("2025-09-15", "HA 101", "", " 2 ")>> }

\* A completed row as process_completed_row reads it.
RowData(row) ==
    [row_number |-> row.row_number,
     data |-> [row.data EXCEPT ![1] = DateCellOf(@)]]

\* What the remote side answers while a row is processed.
LoopAuths == {AuthUp, AuthDown}
LoopSearchResults ==
    { <<SearchFound(<<FoundOrder("SO1", 100)>>), SearchFound(<<>>),
        SearchFound(<<>>), SearchFound(<<>>)>>,
      <<SearchFound(<<>>), SearchFound(<<>>), SearchFound(<<>>),
        SearchFound(<<>>)>> }

\* monitor_sheet before the loop: setup_google_sheets, then
\* setup_sos_inventory (ensure_valid_sos_token and a connection test); a
\* failure of either makes monitor_sheet return False.
MonitorSetup ==
    /\ pc = "setup"
    /\ \E sheets_ok \in BOOLEAN, auth \in LoopAuths, test_ok \in BOOLEAN :
           LET ensured == ensure_valid_sos_token(sos_access_token, auth)
           IN  /\ sos_access_token' = IF sheets_ok THEN ensured.token
                                      ELSE sos_access_token
               /\ pc' = IF sheets_ok /\ ensured.ok /\ test_ok
                        THEN "fetch" ELSE "returned_false"
    /\ UNCHANGED <<name_row, sheet_data_cache, pending, colours, data_hash, baseline>>
    /\ UNCHANGED <<monitorVars, mergeVars, callVars>>

\* A failed fetch as it would be if the cycle went on to the update of the
\* tracking variables with the empty data it got.
MonitorFetchFail_TrackingUpdated ==
    /\ pc = "fetch"
    /\ clock < MaxPolls
    /\ clock' = clock + 1
    /\ last_fetch' = "fail"
    /\ pc' = "retry"
    /\ prev_hash' = NoHash
    /\ previous_completed_rows' = SomeRows(<<>>)
    /\ UNCHANGED <<sheet, nextKey, processed_rows_cache, new_completed_rows,
                   processed, edited, edits, first_ok, row_results>>
    /\ UNCHANGED <<sos_access_token, name_row, sheet_data_cache, pending,
                   colours, data_hash, baseline>>
    /\ UNCHANGED <<mergeVars, callVars>>

\* fetch_sheet_data fails: "retrying" is printed and the loop sleeps 30
\* seconds before `continue`.
MonitorFetchFail ==
    /\ pc = "fetch"
    /\ clock < MaxPolls
    /\ clock' = clock + 1
    /\ last_fetch' = "fail"
    /\ pc' = "retry"
    /\ UNCHANGED <<sheet, nextKey, prev_hash, previous_completed_rows,
                   processed_rows_cache, new_completed_rows, processed, edited,
                   edits, first_ok, row_results>>
    /\ UNCHANGED <<sos_access_token, name_row, sheet_data_cache, pending,
                   colours, data_hash, baseline>>
    /\ UNCHANGED <<mergeVars, callVars>>

\* What time.time() gives, in milliseconds, at the fetch after the fetch of
\* time `clock`: a later time, or, the system clock having been set back,
\* the time of the fetch whose hash is prev_hash.
FetchTimes ==
    IF prev_hash = NoHash THEN {clock + 1} ELSE {clock + 1, prev_hash[2]}

\* A successful fetch as it would be if the hash were not compared with
\* prev_hash: every cycle filters, deduplicates and updates.
MonitorFetchOk_HashIgnored ==
    /\ pc = "fetch"
    /\ clock < MaxPolls
    /\ clock' = clock + 1
    /\ last_fetch' = "ok"
    /\ first_ok' = IF first_ok = 0 THEN clock + 1 ELSE first_ok
    /\ \E timestamp \in FetchTimes :
       LET data == <<ItemIdRow("42", " 7 "), name_row>> \o sheet
           r == get_new_completed_rows(filter_completed_rows(data),
                                       previous_completed_rows,
                                       processed_rows_cache)
       IN  /\ sheet_data_cache' = data
           /\ data_hash' = fetch_sheet_data(data, timestamp)
           /\ baseline' = IF first_ok = 0
                          THEN SomeRows(filter_completed_rows(data))
                          ELSE baseline
           /\ new_completed_rows' = r.new
           /\ processed_rows_cache' = r.cache
           /\ pending' = r.new
           /\ pc' = IF r.new = <<>> THEN "update" ELSE "rows"
    /\ UNCHANGED <<sheet, nextKey, prev_hash, previous_completed_rows,
                   processed, edited, edits, row_results>>
    /\ UNCHANGED <<sos_access_token, name_row, colours>>
    /\ UNCHANGED <<mergeVars, callVars>>

\* fetch_sheet_data succeeds: the snapshot is cached and hashed with the
\* time; when the hash is not prev_hash the completed rows are filtered and
\* the new ones among them become the rows of the for loop, otherwise the
\* iteration goes to its sleep.
MonitorFetchOk ==
    /\ pc = "fetch"
    /\ clock < MaxPolls
    /\ clock' = clock + 1
    /\ last_fetch' = "ok"
    /\ first_ok' = IF first_ok = 0 THEN clock + 1 ELSE first_ok
    /\ \E timestamp \in FetchTimes :
       LET data == <<ItemIdRow("42", " 7 "), name_row>> \o sheet
           current_hash == fetch_sheet_data(data, timestamp)
           r == get_new_completed_rows(filter_completed_rows(data),
                                       previous_completed_rows,
                                       processed_rows_cache)
       IN  /\ sheet_data_cache' = data
           /\ data_hash' = current_hash
           /\ baseline' = IF first_ok = 0
                          THEN SomeRows(filter_completed_rows(data))
                          ELSE baseline
           /\ IF current_hash # prev_hash
              THEN /\ new_completed_rows' = r.new
                   /\ processed_rows_cache' = r.cache
                   /\ pending' = r.new
                   /\ pc' = IF r.new = <<>> THEN "update" ELSE "rows"
              ELSE /\ UNCHANGED <<new_completed_rows, processed_rows_cache,
                                  pending>>
                   /\ pc' = "sleep"
    /\ UNCHANGED <<sheet, nextKey, prev_hash, previous_completed_rows,
                   processed, edited, edits, row_results>>
    /\ UNCHANGED <<sos_access_token, name_row, colours>>
    /\ UNCHANGED <<mergeVars, callVars>>

\* The turn of the for loop as it would be if a failed row ended the loop.
MonitorProcessRow_StopAtError ==
    /\ pc = "rows"
    /\ pending # <<>>
    /\ \E auth \in LoopAuths, results \in LoopSearchResults,
          call \in RowCallEnvs :
           \E r \in {process_completed_row(
                         sheet_data_cache, RowData(Head(pending)),
                         [token |-> sos_access_token, auth |-> auth,
                          results |-> results, call |-> call,
                          remote |-> order])} :
               /\ order' = IF r.merge.order_id # "" THEN r.merge.order_after
                           ELSE order
               /\ sos_access_token' = r.token
               /\ colours' = colours \o
                      [k \in 1..Len(r.colour_calls) |->
                           [row_number |-> Head(pending).row_number,
                            colour |-> r.colour_calls[k],
                            reason |-> r.reason]]
               /\ row_results' = Append(row_results, r.colour)
               /\ pending' = IF r.colour = "error" THEN <<>>
                             ELSE Tail(pending)
               /\ pc' = IF r.colour = "error" \/ Tail(pending) = <<>>
                        THEN "update" ELSE "rows"
    /\ processed' = Append(processed, Head(pending))
    /\ UNCHANGED <<sheet, nextKey, clock, prev_hash, previous_completed_rows,
                   processed_rows_cache, new_completed_rows, edited,
                   last_fetch, edits, first_ok>>
    /\ UNCHANGED <<name_row, sheet_data_cache, data_hash, baseline>>
    /\ UNCHANGED <<op, op_items, op_before, op_result, row_colour, http,
                   calls>>
    /\ UNCHANGED callVars

\* The turn of the for loop as it would be if the row were merged into the
\* remote order as it was read before the loop started.
MonitorProcessRow_StaleOrder ==
    /\ pc = "rows"
    /\ pending # <<>>
    /\ \E auth \in LoopAuths, results \in LoopSearchResults,
          call \in RowCallEnvs :
           \E r \in {process_completed_row(
                         sheet_data_cache, RowData(Head(pending)),
                         [token |-> sos_access_token, auth |-> auth,
                          results |-> results, call |-> call,
                          remote |-> InitOrder(<<Line42>>)])} :
               /\ order' = IF r.merge.order_id # "" THEN r.merge.order_after
                           ELSE order
               /\ sos_access_token' = r.token
               /\ colours' = colours \o
                      [k \in 1..Len(r.colour_calls) |->
                           [row_number |-> Head(pending).row_number,
                            colour |-> r.colour_calls[k],
                            reason |-> r.reason]]
               /\ row_results' = Append(row_results, r.colour)
    /\ processed' = Append(processed, Head(pending))
    /\ pending' = Tail(pending)
    /\ pc' = IF Tail(pending) = <<>> THEN "update" ELSE "rows"
    /\ UNCHANGED <<sheet, nextKey, clock, prev_hash, previous_completed_rows,
                   processed_rows_cache, new_completed_rows, edited,
                   last_fetch, edits, first_ok>>
    /\ UNCHANGED <<name_row, sheet_data_cache, data_hash, baseline>>
    /\ UNCHANGED <<op, op_items, op_before, op_result, row_colour, http,
                   calls>>
    /\ UNCHANGED callVars

\* One turn of the for loop: process_completed_row for the next new row
\* (it catches every exception itself, so the except branch of the loop is
\* not reached), against the remote order as it is now.
MonitorProcessRow ==
    /\ pc = "rows"
    /\ pending # <<>>
    /\ \E auth \in LoopAuths, results \in LoopSearchResults,
          call \in RowCallEnvs :
           \E r \in {process_completed_row(
                         sheet_data_cache, RowData(Head(pending)),
                         [token |-> sos_access_token, auth |-> auth,
                          results |-> results, call |-> call,
                          remote |-> order])} :
               /\ order' = IF r.merge.order_id # "" THEN r.merge.order_after
                           ELSE order
               /\ sos_access_token' = r.token
               /\ colours' = colours \o
                      [k \in 1..Len(r.colour_calls) |->
                           [row_number |-> Head(pending).row_number,
                            colour |-> r.colour_calls[k],
                            reason |-> r.reason]]
               /\ row_results' = Append(row_results, r.colour)
    /\ processed' = Append(processed, Head(pending))
    /\ pending' = Tail(pending)
    /\ pc' = IF Tail(pending) = <<>> THEN "update" ELSE "rows"
    /\ UNCHANGED <<sheet, nextKey, clock, prev_hash, previous_completed_rows,
                   processed_rows_cache, new_completed_rows, edited,
                   last_fetch, edits, first_ok>>
    /\ UNCHANGED <<name_row, sheet_data_cache, data_hash, baseline>>
    /\ UNCHANGED <<op, op_items, op_before, op_result, row_colour, http,
                   calls>>
    /\ UNCHANGED callVars

\* The update of the tracking variables as it would be if the rows found new
\* were recorded in place of the rows found completed.
MonitorUpdate_PreviousIsNew ==
    /\ pc = "update"
    /\ prev_hash' = data_hash
    /\ previous_completed_rows' = SomeRows(new_completed_rows)
    /\ pc' = "sleep"
    /\ UNCHANGED <<sheet, nextKey, clock, processed_rows_cache,
                   new_completed_rows, processed, edited, last_fetch, edits,
                   first_ok, row_results>>
    /\ UNCHANGED <<sos_access_token, name_row, sheet_data_cache, pending,
                   colours, data_hash, baseline>>
    /\ UNCHANGED <<mergeVars, callVars>>

\* "Update tracking variables", after the for loop.
MonitorUpdate ==
    /\ pc = "update"
    /\ prev_hash' = data_hash
    /\ previous_completed_rows' =
           SomeRows(filter_completed_rows(sheet_data_cache))
    /\ pc' = "sleep"
    /\ UNCHANGED <<sheet, nextKey, clock, processed_rows_cache,
                   new_completed_rows, processed, edited, last_fetch, edits,
                   first_ok, row_results>>
    /\ UNCHANGED <<sos_access_token, name_row, sheet_data_cache, pending,
                   colours, data_hash, baseline>>
    /\ UNCHANGED <<mergeVars, callVars>>

\* time.sleep(CHECK_INTERVAL) at the end of an iteration, time.sleep(30)
\* after a failed fetch: the loop goes back to the fetch.
MonitorSleep ==
    /\ pc \in {"sleep", "retry"}
    /\ pc' = "fetch"
    /\ UNCHANGED <<sos_access_token, name_row, sheet_data_cache, pending,
                   colours, data_hash, baseline>>
    /\ UNCHANGED <<monitorVars, mergeVars, callVars>>

\* KeyboardInterrupt inside the try block: monitor_sheet returns True.
MonitorInterrupt ==
    /\ pc \in {"fetch", "rows", "update", "sleep", "retry"}
    /\ pc' = "returned_true"
    /\ UNCHANGED <<sos_access_token, name_row, sheet_data_cache, pending,
                   colours, data_hash, baseline>>
    /\ UNCHANGED <<monitorVars, mergeVars, callVars>>

\* An operator marks a data row done.
LoopMarkDone ==
    \E i \in 1..Len(sheet) :
        /\ pc \in {"fetch", "rows", "update", "sleep", "retry"}
        /\ sheet[i][6] = ""
        /\ edits < MaxLoopEdits
        /\ edits' = edits + 1
        /\ sheet' = [sheet EXCEPT ![i][6] = "Yes"]
        /\ UNCHANGED <<nextKey, clock, prev_hash, previous_completed_rows,
                       processed_rows_cache, new_completed_rows, processed,
                       edited, last_fetch, first_ok, row_results>>
        /\ UNCHANGED <<mergeVars, callVars, loopVars>>

\* An operator renames the marker cell, or names it "Done?" again.
LoopRenameMarker ==
    /\ pc \in {"fetch", "rows", "update", "sleep", "retry"}
    /\ edits < MaxLoopEdits
    /\ edits' = edits + 1
    /\ name_row' = IF name_row = ItemNameRow THEN NameRowNoMarker
                   ELSE ItemNameRow
    /\ UNCHANGED <<sheet, nextKey, clock, prev_hash, previous_completed_rows,
                   processed_rows_cache, new_completed_rows, processed,
                   edited, last_fetch, first_ok, row_results>>
    /\ UNCHANGED <<pc, sos_access_token, sheet_data_cache, pending, colours,
                   data_hash, baseline>>
    /\ UNCHANGED <<mergeVars, callVars>>

InitLoop ==
    /\ sheet \in LoopSheets
    /\ nextKey = Len(sheet)
    /\ clock = 0
    /\ prev_hash = NoHash
    /\ previous_completed_rows = NoneRows
    /\ processed_rows_cache = {}
    /\ new_completed_rows = <<>>
    /\ processed = <<>>
    /\ edited = {}
    /\ last_fetch = "none"
    /\ edits = 0
    /\ first_ok = 0
    /\ row_results = <<>>
    /\ order = InitOrder(<<Line42>>)
    /\ op = "none"
    /\ op_items = <<>>
    /\ op_before = IdleOrder
    /\ op_result = [success |-> FALSE]
    /\ row_colour = "none"
    /\ http = <<>>
    /\ calls = 0
    /\ inp = NoCall
    /\ out = NoCall
    /\ pc = "setup"
    /\ sos_access_token = NoToken
    /\ name_row = ItemNameRow
    /\ sheet_data_cache = <<>>
    /\ pending = <<>>
    /\ colours = <<>>
    /\ data_hash = NoHash
    /\ baseline = NoneRows

NextLoop ==
    \/ MonitorSetup
    \/ MonitorFetchFail
    \/ MonitorFetchOk
    \/ MonitorProcessRow
    \/ MonitorUpdate
    \/ MonitorSleep
    \/ MonitorInterrupt
    \/ LoopMarkDone
    \/ LoopRenameMarker

SpecLoop == InitLoop /\ [][NextLoop]_vars

(***************************************************************************)
(* Claims about the search patterns and the handling of a row              *)
(* (specification SpecProcess).                                            *)
(***************************************************************************)
IsSearch(request) == request.m = "SEARCH"

\* The queries of the searches a processed row issued, in order.
SearchedPatterns ==
    LET searches == SelectSeq(out.row.http, IsSearch)
    IN  [i \in 1..Len(searches) |-> searches[i].body]

\* Requests that change the remote order.
WritesOf(requests) == {i \in 1..Len(requests) : requests[i].m = "PUT"}

SeptemberCells ==
    {Date_2025_09_15, Date_09_15_2025_time, Date_2025_09_15_slash}

UnparseableCells == {EmptyCell, BlankCell, TextCell, Date_2025_02_30}

RowDateCell == inp.row_data.data[1]
RowIdCell == inp.row_data.data[2]

\* C13: the searches a row issues are exactly four, in the order
\* "{id} {full month}", "{id}  {full month}", "{id} {3-letter month}",
\* "{id}  {3-letter month}", the identifier trimmed; ("HA 101",
\* "2025-09-15") gives "HA 101 September", "HA 101  September",
\* "HA 101 Sep", "HA 101  Sep".
C13_FourPatterns ==
    (out.kind = "process" /\ SearchedPatterns # <<>>) =>
        /\ RowIdCell \in {"HA 101", " HA 101 "}
        /\ RowDateCell \in SeptemberCells \cup {Date_15_02_25}
        /\ RowDateCell \in SeptemberCells =>
               SearchedPatterns = <<"HA 101 September", "HA 101  September",
                                    "HA 101 Sep", "HA 101  Sep">>
        /\ RowDateCell = Date_15_02_25 =>
               SearchedPatterns = <<"HA 101 February", "HA 101  February",
                                    "HA 101 Feb", "HA 101  Feb">>

\* C13 witness: the row with identifier " HA 101 " and date 2025-09-15 was
\* processed and its searches were issued.
C13_Witness ==
    /\ out.kind = "process"
    /\ RowIdCell = " HA 101 "
    /\ RowDateCell = Date_2025_09_15
    /\ Len(SearchedPatterns) = 4

\* C14: a row whose date cell is empty or matches no date format is marked
\* failed without any request (no search, no price lookup, no write), and
\* no month is derived for it from the current date.
C14_BadDateFails ==
    (out.kind = "process" /\ RowDateCell \in UnparseableCells) =>
        /\ ~out.row.result
        /\ out.row.colour = "error"
        /\ out.row.http = <<>>
        /\ out.row.components = NoComponents

\* C14 witness: a row with an identifier, quantities and a date cell holding
\* other text was processed while the token was valid and the first search
\* would have found an order.
C14_Witness ==
    /\ out.kind = "process"
    /\ RowDateCell = TextCell
    /\ RowIdCell = "HA 101"
    /\ inp.row_data.data[4] = "3"
    /\ inp.env.token = "valid"
    /\ inp.env.results[1].orders # <<>>
    /\ inp.env.call.put_ok

(***************************************************************************)
(* Claims about order resolution (specification SpecCall, calls of         *)
(* search_and_update_sales_orders).                                        *)
(***************************************************************************)
\* The orders of the successful searches, pattern after pattern.
RECURSIVE FoundInOrder(_, _)
FoundInOrder(results, i) ==
    IF i > Len(results) THEN <<>>
    ELSE (IF results[i].ok THEN results[i].orders ELSE <<>>)
             \o FoundInOrder(results, i + 1)

\* Positions of the orders that are the first of their id.
FirstCopies(found) ==
    {p \in 1..Len(found) : \A q \in 1..(p - 1) : found[q].id # found[p].id}

\* The k-th smallest element of a set of numbers.
RECURSIVE KthOf(_, _)
KthOf(S, k) ==
    LET least == CHOOSE x \in S : \A y \in S : x <= y
    IN  IF k = 1 THEN least ELSE KthOf(S \ {least}, k - 1)

IdsOf(orders) == {orders[k].id : k \in 1..Len(orders)}

Searched == out.kind = "search" /\ inp.env.token = "valid"

GetsOf(requests) == {i \in 1..Len(requests) : requests[i].m = "GET"}

\* C15: the unioned candidate list holds, for each order id the searches
\* returned, the first copy of it in pattern order and position, in the
\* order of these first occurrences, and the merge is made on the first
\* element of the list.
C15_UnionFirstOccurrence ==
    Searched =>
        LET found == FoundInOrder(inp.env.results, 1)
            firsts == FirstCopies(found)
            r == out.merge
            all_orders == r.all_orders
        IN  /\ Len(all_orders) = Cardinality(firsts)
            /\ \A k \in 1..Len(all_orders) :
                   all_orders[k] = found[KthOf(firsts, k)]
            /\ GetsOf(r.http) # {} =>
                   /\ r.order_id = all_orders[1].id
                   /\ \A i \in GetsOf(r.http) \cup WritesOf(r.http) :
                          "error" \in DOMAIN r.http[i].body
                              \/ data_of(r.http[i].body).id = all_orders[1].id

\* C15 witness: the first search returned SO2 then a copy of SO1, a later
\* one another copy of SO1, and the merge wrote to the order.
C15_Witness ==
    /\ Searched
    /\ inp.env.results[1].orders
           = <<FoundOrder("SO2", 100), FoundOrder("SO1", 200)>>
    /\ inp.env.results[3].orders = <<FoundOrder("SO1", 100)>>
    /\ out.merge.success
    /\ out.merge.order_id = "SO2"
    /\ Len(out.merge.all_orders) = 2

\* C16: a failed search adds no order and does not end resolution: all four
\* patterns are searched, and "No sales orders found" is reported exactly
\* when every pattern's search failed or returned no order.
C16_FailedSearchSkipped ==
    Searched =>
        LET searches == SelectSeq(out.merge.http, IsSearch)
            nothing == \A i \in 1..4 :
                           ~inp.env.results[i].ok
                               \/ inp.env.results[i].orders = <<>>
        IN  /\ Len(searches) = 4
            /\ \A i \in 1..4 : searches[i].ok = inp.env.results[i].ok
            /\ (out.merge.message = "No sales orders found") <=> nothing
            /\ IdsOf(out.merge.all_orders)
                   = UNION {IdsOf(inp.env.results[i].orders) :
                               i \in {j \in 1..4 : inp.env.results[j].ok}}

\* C16 witness: the searches of the first two patterns failed, the third
\* found an order and the merge wrote to it.
C16_Witness ==
    /\ Searched
    /\ ~inp.env.results[1].ok
    /\ ~inp.env.results[2].ok
    /\ inp.env.results[3].orders = <<FoundOrder("SO1", 100)>>
    /\ out.merge.success
    /\ out.merge.order_id = "SO1"

(***************************************************************************)
(* Claims about a row no remote order matches (specification SpecProcess). *)
(***************************************************************************)
\* The row has an identifier and a date that parses.
ValidRow ==
    /\ RowIdCell \in {"HA 101", " HA 101 "}
    /\ RowDateCell \in SeptemberCells \cup {Date_15_02_25}

\* No search of the row's patterns returns an order.
NoOrderMatches ==
    \A i \in 1..4 :
        ~inp.env.results[i].ok \/ inp.env.results[i].orders = <<>>

\* A quantity cell of the row holds a quantity.
RowHasQuantities ==
    inp.row_data.data[4] # "" \/ inp.row_data.data[5] # ""

Extracted == out.kind = "extract"

\* The item-id cell and the quantity cell of column col_index of the call.
IdCellOf(col_index) == inp.item_ids[col_index + 1]
QuantityCellOf(col_index) == inp.row_data.data[col_index + 1]

\* The entries extracted from column col_index.
EntriesOf(col_index) ==
    {k \in 1..Len(out.items) : out.items[k].column = col_index}

\* C18: the extracted item list never holds an entry whose item_id is "0".
C18_NoSentinelItem ==
    Extracted => \A k \in 1..Len(out.items) : out.items[k].item_id # "0"

\* C18 witness: a column whose item-id cell is " 0" held the quantity 3, and
\* the other column was extracted.
C18_Witness ==
    /\ Extracted
    /\ IdCellOf(3) = " 0"
    /\ QuantityCellOf(3) = "3"
    /\ Len(out.items) = 1
    /\ out.items[1].column = 4

\* C19 (as claimed): every extracted entry has quantity > 0, a non-empty item
\* id and a column index >= 3; a column whose quantity cell is empty, zero,
\* negative or not a number, or whose item-id cell is empty or blank, yields
\* no entry, and every other column with a quantity and an item id other
\* than "0" yields one.
C19_EntriesWellFormed ==
    Extracted =>
        /\ \A k \in 1..Len(out.items) :
               /\ out.items[k].quantity > 0
               /\ out.items[k].item_id # ""
               /\ out.items[k].column >= 3
        /\ \A c \in {3, 4} :
               IF \/ QuantityCellOf(c) \in {"", "0", "-1", "abc"}
                  \/ IdCellOf(c) \in {"", "  "}
                  \/ IdCellOf(c) \in {"0", " 0"}
               THEN EntriesOf(c) = {}
               ELSE Cardinality(EntriesOf(c)) = 1

\* C20 (as claimed): the row_date of the extracted items is the date the
\* search-pattern builder's parse of the same date cell yields, and there is
\* none exactly when the builder's parse fails.
C20_SameDateParse ==
    (Extracted /\ out.items # <<>>) =>
        LET built == parsed_month_date(StripCell(inp.row_data.data[1]))
        IN  \A k \in 1..Len(out.items) :
                out.items[k].row_date
                    = IF built.ok THEN format_date(built) ELSE ""

(***************************************************************************)
(* Claims about the completion filter (specification SpecCall).            *)
(***************************************************************************)
\* Cells that equal "yes" once trimmed and lower-cased.
YesCells == {"yes", "Yes", "YES", "yes "}

\* C21: filter_completed_rows returns exactly the rows strictly below the
\* marker row whose cell in the marker's column is "yes" after trimming,
\* whatever the case, in ascending row order, each with its 1-indexed row
\* number and its cells; rows at or above the marker row and rows too short
\* for that column are not returned.
C21_FilterContract ==
    out.kind = "filter" =>
        LET data == inp.data
            info == find_done_column(data)
            rows == out.rows
            wanted ==
                IF ~info.found THEN {}
                ELSE {i \in 1..Len(data) :
                         /\ i > info.row
                         /\ Len(data[i]) >= info.column
                         /\ data[i][info.column] \in YesCells}
        IN  /\ {rows[k].row_number : k \in 1..Len(rows)} = wanted
            /\ \A k \in 1..Len(rows) : rows[k].data = data[rows[k].row_number]
            /\ \A k \in 1..(Len(rows) - 1) :
                   rows[k].row_number < rows[k + 1].row_number

\* C21 witness: a "yes" row above the marker row, the marker in the second
\* column of row 2, a row too short below it, and a "yes" row below that,
\* which alone is returned, with row number 4.
C21_Witness ==
    /\ out.kind = "filter"
    /\ inp.data = << <<"r1", "yes ">>, <<"Date", " Done?">>, <<"r1">>,
                    <<"r1", "yes ">> >>
    /\ Len(out.rows) = 1
    /\ out.rows[1].row_number = 4

(***************************************************************************)
(* Claims about the access token (specification SpecCall).                 *)
(***************************************************************************)
Called(name) == \E i \in 1..Len(out.calls) : out.calls[i] = name

\* C27: ensure_valid_sos_token calls authenticate() only if no token is
\* held, or if the validity probe failed and the refresh failed (also for
\* want of a refresh token); when the probe succeeds neither refresh nor
\* authenticate is called, and when the refresh succeeds authenticate is not
\* called.
C27_AuthenticateOnlyWhenNeeded ==
    out.kind = "token" =>
        LET held == inp.token # NoToken
            probe_ok == held /\ inp.auth.probe_ok
            refresh_ok == held /\ ~inp.auth.probe_ok /\ inp.auth.refresh_ok
        IN  /\ Called("authenticate") =>
                   \/ ~held
                   \/ (~inp.auth.probe_ok /\ ~inp.auth.refresh_ok)
            /\ probe_ok => /\ ~Called("refresh_access_token")
                           /\ ~Called("authenticate")
                           /\ out.ok /\ out.token = inp.token
            /\ refresh_ok => /\ Called("refresh_access_token")
                             /\ ~Called("authenticate")
                             /\ out.ok

\* C27 witness: the held token failed the probe, the refresh succeeded, and
\* the call ended with the refreshed token after the probe and the refresh
\* only, although authenticate() would have succeeded too.
C27_Witness ==
    /\ out.kind = "token"
    /\ inp.token = "valid"
    /\ ~inp.auth.probe_ok /\ inp.auth.refresh_ok /\ inp.auth.authenticate_ok
    /\ out.calls = <<"test_connection", "refresh_access_token">>
    /\ out.token = "refreshed"

\* Request i of the call was a search that reported status 401.
Unauthorized(i) ==
    /\ i <= 4
    /\ IsSearch(out.merge.http[i])
    /\ inp.env.results[i].error = AuthenticationFailed

\* The requests before which the access token was fetched anew:
\* ensure_valid_sos_token runs once, before the first request, and nothing
\* else assigns the module global.
TokenFetchedBefore == IF out.merge.auth_calls # <<>> THEN {1} ELSE {}

\* C28 (as claimed): when a request of the reconciliation of a row reports
\* an authentication failure (status 401), the access token is fetched anew
\* before any further request is issued.
C28_RefetchAfterUnauthorized ==
    out.kind = "search" =>
        \A i, j \in 1..Len(out.merge.http) :
            (i < j /\ Unauthorized(i)) =>
                \E k \in TokenFetchedBefore : i < k /\ k <= j

(***************************************************************************)
(* Claims about a failed price lookup (specification SpecApi).             *)
(***************************************************************************)
\* The item requests of the operation that are merged (not skipped as
\* invalid), in order, and the price lookups it sent, in order: lookup k is
\* the lookup for merged request k.
MergedRequests ==
    SelectSeq(op_items, LAMBDA it : it.item_id # "" /\ it.quantity > 0)
PriceLookups == SelectSeq(http, LAMBDA request : request.m = "ITEM")

PutSucceeded == \E i \in 1..Len(http) : http[i].m = "PUT" /\ http[i].ok

MarkerCells == {"Done?", " Done?", "done?"}
NoMarkerIn(data) ==
    \A r \in 1..Len(data) : \A k \in 1..Len(data[r]) :
        data[r][k] \notin MarkerCells

\* The step is a successful fetch.
FetchedOk == pc = "fetch" /\ clock' = clock + 1 /\ last_fetch' = "ok"

\* C22: when no cell of the fetched snapshot equals the marker text, the
\* completion filter returns the empty sequence, no row is handed to
\* process_completed_row in that cycle, and the loop goes on to the update
\* of its tracking variables (which a cycle whose hash is the previous hash
\* skips) and to the sleep before the next fetch.
C22_MarkerMissing ==
    [][/\ (FetchedOk /\ NoMarkerIn(sheet_data_cache')) =>
              /\ filter_completed_rows(sheet_data_cache') = <<>>
              /\ new_completed_rows' = <<>>
              /\ pending' = <<>>
              /\ processed' = processed
              /\ colours' = colours
              /\ pc' = IF data_hash' # prev_hash THEN "update" ELSE "sleep"
       /\ (pc = "update" /\ NoMarkerIn(sheet_data_cache) /\ pc' # pc) =>
              \/ pc' = "returned_true"
              \/ /\ pc' = "sleep"
                 /\ previous_completed_rows' = SomeRows(<<>>)
                 /\ processed' = processed]_vars

\* C22 witness: after a first cycle with the marker, the marker cell was
\* renamed and a row marked done; the second fetch found no marker, nothing
\* was processed, and the loop sleeps before its next fetch.
C22_Witness ==
    /\ pc = "sleep"
    /\ clock = 2 /\ first_ok = 1 /\ last_fetch = "ok"
    /\ NoMarkerIn(sheet_data_cache)
    /\ \E r \in 3..Len(sheet_data_cache) : sheet_data_cache[r][6] = "Yes"
    /\ previous_completed_rows = SomeRows(<<>>)
    /\ processed = <<>>

\* The step is a failed fetch.
FetchFailed == pc = "fetch" /\ clock' = clock + 1 /\ last_fetch' = "fail"

\* C23: when a snapshot fetch fails, that cycle processes no row, leaves
\* the previous fingerprint, the previous completed set and the seen set
\* unchanged, and goes to the 30 second sleep, after which the fetch is
\* attempted again; this holds after any number of failures in a row.
C23_FetchFailureRetried ==
    [][/\ FetchFailed =>
              /\ pc' = "retry"
              /\ UNCHANGED <<prev_hash, previous_completed_rows,
                             processed_rows_cache, sheet_data_cache, pending,
                             processed, row_results, colours, order>>
       /\ (pc = "retry" /\ pc' # pc) =>
              /\ pc' \in {"fetch", "returned_true"}
              /\ UNCHANGED <<prev_hash, previous_completed_rows,
                             processed_rows_cache, sheet_data_cache, pending,
                             processed, row_results, colours, order>>]_vars

\* C23 witness: the first fetch succeeded with one row marked done, the
\* second and the third failed while the other row was marked done; the
\* fingerprint and the completed set are those of the first cycle, nothing
\* was processed, and the loop sleeps before its next attempt.
C23_Witness ==
    /\ clock = 3 /\ first_ok = 1 /\ last_fetch = "fail"
    /\ pc = "retry"
    /\ prev_hash # NoHash /\ prev_hash[2] = 1
    /\ ~previous_completed_rows.isNone
    /\ Len(previous_completed_rows.rows) = 1
    /\ \A i \in 1..Len(sheet) : sheet[i][6] = "Yes"
    /\ processed = <<>>

\* C24 (as claimed): no error is fatal: whatever fails (authentication,
\* fetch, a malformed row, a remote request), monitor_sheet does not return
\* on account of it; it returns only when it is interrupted from outside.
C24_NoFatalError == pc # "returned_false"

\* The rows of the current for loop that were processed, and the color_row
\* calls made for them.
RowsDone == Len(new_completed_rows) - Len(pending)
ColourOfDone(k) == colours[Len(colours) - RowsDone + k]

\* C25: a row-scoped failure (missing identifier or date, unparseable
\* date, no order found, failed reconciliation) marks that row and no other
\* as failed, and the rows after it in the same cycle are processed all the
\* same: every row the for loop has passed got exactly one colour, its own,
\* and the loop reaches the update of the tracking variables only when no
\* new row is left.
C25_RowFailureIsRowScoped ==
    /\ Len(colours) >= RowsDone
    /\ Len(colours) = Len(processed)
    /\ \A k \in 1..RowsDone :
           ColourOfDone(k).row_number = new_completed_rows[k].row_number
    /\ pc \in {"update", "sleep"} => pending = <<>>
    /\ pc = "rows" => pending # <<>>

\* C25 witness: two rows became complete in the same cycle; the first one
\* failed for its date and was coloured as error, the second was processed
\* after it, succeeded and added its line to the order.
C25_Witness ==
    /\ pc = "update"
    /\ Len(new_completed_rows) = 2
    /\ Len(colours) = 2
    /\ colours[1].colour = "error"
    /\ colours[1].reason = "Could not build search string"
    /\ colours[1].row_number = 3
    /\ colours[2].colour = "success"
    /\ colours[2].row_number = 4
    /\ Len(order.lines) = 2

\* The items of a processed row, and the rows processed so far that were
\* coloured as success with at least one item.
ItemsOfRow(row) ==
    extract_items_from_sheet_data(
        <<ItemIdRow("42", " 7 "), ItemNameRow, row.data>>, RowData(row),
        Env(NoToken, NoResults, CHOOSE c \in RowCallEnvs : ~c.get_ok)).items
MergedRows ==
    {i \in 1..Len(processed) :
        colours[i].colour = "success" /\ ItemsOfRow(processed[i]) # <<>>}

\* C26: the new rows of a cycle are processed one at a time in the order
\* the completion filter yields them (ascending row numbers), each row's
\* read-modify-write on the remote order being complete before the next
\* row's begins; hence no update is lost: the order holds one line for every
\* item of every row that succeeded, also when two rows of one cycle
\* resolve to the same order.
C26_SequentialRows ==
    /\ \A k \in 1..RowsDone :
           processed[Len(processed) - RowsDone + k] = new_completed_rows[k]
    /\ \A k \in 1..(Len(new_completed_rows) - 1) :
           new_completed_rows[k].row_number
               < new_completed_rows[k + 1].row_number
    /\ pending = SubSeq(new_completed_rows, RowsDone + 1,
                        Len(new_completed_rows))
    /\ Len(order.lines) = 1 + Cardinality(MergedRows)
    /\ \A i \in MergedRows :
           LET it == ItemsOfRow(processed[i])[1]
           IN  \E l \in 2..Len(order.lines) :
                   /\ order.lines[l].item = it.item_id
                   /\ order.lines[l].quantity = it.quantity
                   /\ order.lines[l].duedate = it.row_date

\* C26 witness: rows 3 and 4 became complete in the same cycle, both
\* resolved to order SO1 and both succeeded; the order holds its old line,
\* then the line of row 3, then the line of row 4.
C26_Witness ==
    /\ pc = "update"
    /\ Len(new_completed_rows) = 2
    /\ Len(colours) = 2
    /\ colours[1].colour = "success" /\ colours[2].colour = "success"
    /\ Len(order.lines) = 3
    /\ order.lines[2].item = "42" /\ order.lines[2].quantity = 3
    /\ order.lines[3].item = "7" /\ order.lines[3].quantity = 2

\* C29 (as claimed): when the token is invalid and neither the refresh nor
\* the re-authentication succeeds while a row is processed, the failure ends
\* the cycle: no further row of that cycle is processed (the cycle is
\* retried after the delay instead), so the row that met the failure is the
\* last row the for loop has passed and the loop is not at its next row or
\* at its regular end.
C29_AuthFailureEndsCycle ==
    \A k \in 1..RowsDone :
        ColourOfDone(k).reason = "No access token" =>
            /\ k = RowsDone
            /\ pc \notin {"rows", "update", "sleep"}

(***************************************************************************)
(* Claims about match-or-create merges (specification SpecApi).            *)
(***************************************************************************)
\* The operation merged exactly one request, without force_new_line, and
\* its write succeeded.
OneMatchOrCreate ==
    /\ op \in {"add_item", "add_multiple"}
    /\ PutSucceeded
    /\ Len(MergedRequests) = 1
    /\ ~MergedRequests[1].force_new_line

\* The price the operation fetched for its request k (0.0 after a failed
\* lookup).
FetchedPrice(k) ==
    IF PriceLookups[k].ok THEN CatalogPrice(MergedRequests[k].item_id) ELSE 0

\* Indexes of the lines of an order that carry an item id.
LinesOf(lines, item_id) == {i \in 1..Len(lines) : lines[i].item = item_id}

\* C31: in match-or-create mode, when a line with the requested item id
\* exists, the first such line's quantity becomes existing + requested, its
\* unit price is overwritten with the fetched price exactly when the two
\* differ by more than 0.001, its due date becomes the new due date and no
\* line is appended; when no such line exists exactly one line is appended.
C31_MatchOrCreate ==
    OneMatchOrCreate =>
        LET it == MergedRequests[1]
            before == op_before.lines
            after == order.lines
            hits == LinesOf(before, it.item_id)
        IN  IF hits # {}
            THEN LET k == CHOOSE i \in hits : \A j \in hits : i <= j
                 IN  /\ Len(after) = Len(before)
                     /\ after[k].quantity = before[k].quantity + it.quantity
                     /\ after[k].duedate = DueDateOf(it)
                     /\ after[k].unitprice =
                            IF Abs(before[k].unitprice - FetchedPrice(1))
                                   > PRICE_TOLERANCE
                            THEN FetchedPrice(1)
                            ELSE before[k].unitprice
                     /\ \A j \in 1..Len(before) : j # k => after[j] = before[j]
            ELSE /\ Len(after) = Len(before) + 1
                 /\ SubSeq(after, 1, Len(before)) = before
                 /\ after[Len(after)].item = it.item_id
                 /\ after[Len(after)].quantity = it.quantity

\* C31 witness: a match-or-create request for an item that two lines of the
\* order carry, whose fetched price is within the tolerance of the price of
\* the first of them: that line is incremented and keeps its price, no line
\* is appended.
C31_Witness ==
    /\ OneMatchOrCreate
    /\ Cardinality(LinesOf(op_before.lines, MergedRequests[1].item_id)) = 2
    /\ Len(order.lines) = Len(op_before.lines)
    /\ \E k \in 1..Len(order.lines) :
           /\ order.lines[k].quantity = op_before.lines[k].quantity + 2
           /\ order.lines[k].unitprice = op_before.lines[k].unitprice
           /\ order.lines[k].unitprice # FetchedPrice(1)
           /\ order.lines[k].duedate # op_before.lines[k].duedate

\* C31 witness, the other cases: the price of the matched line is
\* overwritten; a line is appended for an item the order does not carry.
C31_WitnessOverwritten ==
    /\ OneMatchOrCreate
    /\ \E k \in 1..Len(op_before.lines) :
           /\ op_before.lines[k].item = MergedRequests[1].item_id
           /\ op_before.lines[k].unitprice # FetchedPrice(1)
           /\ order.lines[k].unitprice = FetchedPrice(1)
           /\ FetchedPrice(1) # 0

C31_WitnessAppended ==
    /\ OneMatchOrCreate
    /\ LinesOf(op_before.lines, MergedRequests[1].item_id) = {}
    /\ Len(order.lines) = Len(op_before.lines) + 1
    /\ op_before.lines # <<>>

\* The operation is a match-or-create merge (no request with
\* force_new_line) whose write succeeded.
MatchOrCreateMerge ==
    /\ op \in {"add_item", "add_multiple"}
    /\ PutSucceeded
    /\ \A k \in 1..Len(op_items) : ~op_items[k].force_new_line

RequestedIds == {op_items[k].item_id : k \in 1..Len(op_items)}

\* C39: a match-or-create merge of an item list leaves every line whose item
\* id is not requested unchanged and in place, adds no line of such an id,
\* and increases the number of lines of a requested item id by at most one,
\* also when the list requests the id several times.
C39_MergeFrame ==
    MatchOrCreateMerge =>
        LET before == op_before.lines
            after == order.lines
        IN  /\ Len(after) >= Len(before)
            /\ \A j \in 1..Len(before) :
                   before[j].item \notin RequestedIds => after[j] = before[j]
            /\ \A j \in (Len(before) + 1)..Len(after) :
                   after[j].item \in RequestedIds
            /\ \A id \in RequestedIds :
                   /\ Cardinality(LinesOf(after, id))
                          <= Cardinality(LinesOf(before, id)) + 1
                   /\ Cardinality(LinesOf(after, id))
                          >= Cardinality(LinesOf(before, id))

\* C39 witness: one list requests the same item id twice, the order carries
\* a line of another item and none of the requested one: one line holding
\* both quantities is appended and the other line is as it was.
C39_Witness ==
    /\ MatchOrCreateMerge
    /\ op = "add_multiple"
    /\ Len(MergedRequests) = 2
    /\ MergedRequests[1].item_id = MergedRequests[2].item_id
    /\ op_before.lines # <<>>
    /\ LinesOf(op_before.lines, MergedRequests[1].item_id) = {}
    /\ Len(order.lines) = Len(op_before.lines) + 1
    /\ order.lines[Len(order.lines)].quantity =
           MergedRequests[1].quantity + MergedRequests[2].quantity
    /\ order.lines[1] = op_before.lines[1]

\* The completed rows of a snapshot that are new against a previous
\* completed set and a seen set: those whose signature is in neither (none
\* when there is no previous completed set yet).
NewAgainst(data, previous, cache) ==
    IF previous.isNone THEN <<>>
    ELSE SelectSeq(filter_completed_rows(data),
                   LAMBDA row :
                       /\ create_row_signature(row) \notin cache
                       /\ \A p \in 1..Len(previous.rows) :
                              create_row_signature(previous.rows[p])
                                  # create_row_signature(row))

\* C32: in a cycle whose fetched fingerprint equals the previous
\* fingerprint nothing is filtered, deduplicated or processed: the loop goes
\* to its sleep with the previous fingerprint, the previous completed set,
\* the seen set and the processed rows unchanged.  In a cycle whose
\* fingerprint differs the completed rows are filtered and deduplicated, the
\* new ones are the rows of the for loop, and the update that ends the cycle
\* replaces the previous fingerprint and the previous completed set by those
\* of the cycle.
C32_FingerprintGate ==
    [][/\ (FetchedOk /\ data_hash' = prev_hash) =>
              /\ pc' = "sleep"
              /\ UNCHANGED <<prev_hash, previous_completed_rows,
                             processed_rows_cache, new_completed_rows,
                             pending, processed, row_results, colours, order>>
       /\ (pc = "sleep" /\ pc' # pc) =>
              /\ pc' \in {"fetch", "returned_true"}
              /\ UNCHANGED <<prev_hash, previous_completed_rows,
                             processed_rows_cache, processed, colours, order>>
       /\ (FetchedOk /\ data_hash' # prev_hash) =>
              /\ new_completed_rows' =
                     NewAgainst(sheet_data_cache', previous_completed_rows,
                                processed_rows_cache)
              /\ pending' = new_completed_rows'
              /\ processed_rows_cache' =
                     processed_rows_cache
                         \cup {create_row_signature(new_completed_rows'[k]) :
                                   k \in 1..Len(new_completed_rows')}
              /\ pc' = IF new_completed_rows' = <<>> THEN "update"
                       ELSE "rows"
       /\ (pc = "update" /\ pc' # pc) =>
              \/ pc' = "returned_true"
              \/ /\ pc' = "sleep"
                 /\ prev_hash' = data_hash
                 /\ previous_completed_rows'.isNone = FALSE
                 /\ previous_completed_rows'.rows =
                        filter_completed_rows(sheet_data_cache)]_vars

\* C32 witness: the second cycle processed a newly completed row and
\* recorded its fingerprint; the third fetch gave that same fingerprint, and
\* the loop sleeps with the tracking variables of the second cycle.
C32_Witness ==
    /\ pc = "sleep"
    /\ clock = 3 /\ last_fetch = "ok"
    /\ data_hash = prev_hash
    /\ prev_hash[2] = 2
    /\ Len(processed) = 1
    /\ Len(previous_completed_rows.rows) = 1

\* The row number and the first five cells of a completed row.
RowIdentity(row) == <<row.row_number, SubSeq(row.data, 1, Min(5, Len(row.data)))>>

\* C33 (as claimed): a row that is marked done in the first successfully
\* fetched snapshot, and whose row number and first five cells never change
\* (no step of the loop model changes either), is not emitted as new in any
\* later cycle, whatever the snapshots in between were.
C33_BaselineRowNeverEmitted ==
    \A k \in 1..Len(new_completed_rows) :
        \A b \in 1..Len(baseline.rows) :
            RowIdentity(new_completed_rows[k]) # RowIdentity(baseline.rows[b])

(***************************************************************************)
(* Claims about rows newly marked done (specification Spec).               *)
(***************************************************************************)
\* The step is a cycle whose fetch succeeded.
PolledOk == clock' = clock + 1 /\ last_fetch' = "ok"

\* The data rows the snapshot shows as done, with their row numbers.
DoneNow ==
    {[row_number |-> Len(HeaderRows) + i, data |-> sheet[i]] :
         i \in {k \in 1..Len(sheet) : Lower(Strip(sheet[k][2])) = "yes"}}

\* The row (named by its column-A value) was not marked done in the
\* snapshot of the previous successful cycle.
NotDoneBefore(row) ==
    /\ ~previous_completed_rows.isNone
    /\ \A p \in 1..Len(previous_completed_rows.rows) :
           previous_completed_rows.rows[p].data[1] # row.data[1]

EmittedNext(row) ==
    /\ \E k \in 1..Len(new_completed_rows') : new_completed_rows'[k] = row
    /\ \E k \in (Len(processed) + 1)..Len(processed') : processed'[k] = row

\* C34 (as claimed): every row that is not marked done in the snapshot of
\* one successful cycle and is marked done in the snapshot of the next
\* successful cycle is emitted as new and processed in that next cycle.
C34_NewlyDoneRowProcessed ==
    [][PolledOk =>
          \A row \in DoneNow : NotDoneBefore(row) => EmittedNext(row)]_vars

\* C34 (amended): such a row is emitted as new and processed in that next
\* cycle when its signature (row number and first five cells, trimmed) has
\* not been emitted before, and is not emitted otherwise; so a row processed
\* before, un-marked and marked done again is processed again only with a
\* changed row number or a changed cell among its first five.
C34_NewlyDoneRowProcessedOnce ==
    [][PolledOk =>
          \A row \in DoneNow :
              NotDoneBefore(row) =>
                  (EmittedNext(row)
                       <=> create_row_signature(row)
                               \notin processed_rows_cache)]_vars

\* C34 witness: a row was processed, un-marked, marked done again with
\* another text in its done cell (its second cell), and processed again at
\* the same row number.
C34_Witness ==
    /\ Len(processed) = 2
    /\ processed[1].data[1] = processed[2].data[1]
    /\ processed[1].row_number = processed[2].row_number
    /\ processed[1].data # processed[2].data
    /\ processed[1].data[1] \in edited
    /\ new_completed_rows = <<processed[2]>>

\* C35: when a cycle fetches a snapshot with the same cells as the snapshot
\* of the previous successful cycle, no row is emitted as new, no row is
\* handed to process_completed_row and the remote order is neither read nor
\* written in that cycle, also when the fingerprint differs (another
\* timestamp) and the cycle goes through the update of a changed sheet.
C35_SameCellsNoWork ==
    [][(FetchedOk /\ first_ok # 0 /\ sheet_data_cache' = sheet_data_cache) =>
          /\ pending' = <<>>
          /\ data_hash' # prev_hash =>
                 /\ new_completed_rows' = <<>>
                 /\ pc' = "update"
          /\ data_hash' = prev_hash => pc' = "sleep"
          /\ UNCHANGED <<order, processed, row_results, colours,
                         processed_rows_cache>>]_vars

\* C35 witness: a cycle after the first fetched the cells of the cycle
\* before it, among them a row marked done, under another fingerprint; it
\* found nothing new and is at the update of its tracking variables.
C35_Witness ==
    /\ pc = "update"
    /\ clock >= 2 /\ last_fetch = "ok"
    /\ prev_hash # NoHash
    /\ data_hash # prev_hash
    /\ data_hash[1] = prev_hash[1]
    /\ filter_completed_rows(sheet_data_cache) # <<>>
    /\ new_completed_rows = <<>>
    /\ pending = <<>>

(***************************************************************************)
(* Claims about the outcome of a row (specifications SpecRow, SpecProcess  *)
(* and SpecCall).                                                          *)
(***************************************************************************)
\* C36 (as claimed): the outcome of a row is all-or-nothing: a row with k
\* items that is marked success has added exactly k lines to the resolved
\* order, and a row that is marked failed has added none.
C36_AllOrNothing ==
    op = "row" =>
        /\ row_colour = "success" =>
               /\ Len(order.lines) = Len(op_before.lines) + Len(op_items)
               /\ SubSeq(order.lines, 1, Len(op_before.lines))
                      = op_before.lines
        /\ row_colour = "error" => order.lines = op_before.lines

\* C37: a call of process_completed_row makes exactly one colouring request
\* for its row, on every path (invalid row, search string not built, no
\* item, order not resolved, merge result): the success colour when it
\* returns True, the error colour when it returns False, never both.
C37_OneColourRequest ==
    out.kind = "process" =>
        /\ Len(out.row.colour_calls) = 1
        /\ out.row.colour_calls[1] \in {"success", "error"}
        /\ out.row.colour_calls[1] = "success" <=> out.row.result
        /\ out.row.colour = out.row.colour_calls[1]

\* C37 witness: a row whose order was resolved and whose merge failed (an
\* order was read, none was written): one request, for the error colour.
C37_Witness ==
    /\ out.kind = "process"
    /\ out.row.colour_calls = <<"error">>
    /\ out.row.items # <<>>
    /\ GetsOf(out.row.http) # {}
    /\ WritesOf(out.row.http) = {}

\* C37 witnesses of the other paths: invalid row, search string not built,
\* no item, no order found, merge succeeded.
C37_WitnessInvalidRow ==
    /\ out.kind = "process"
    /\ out.row.reason = "Invalid row data"
    /\ out.row.colour_calls = <<"error">>

C37_WitnessNoSearchString ==
    /\ out.kind = "process"
    /\ out.row.reason = "Could not build search string"
    /\ out.row.colour_calls = <<"error">>

C37_WitnessNoItems ==
    /\ out.kind = "process"
    /\ out.row.reason = "No items found to add"
    /\ out.row.colour_calls = <<"success">>

C37_WitnessNotResolved ==
    /\ out.kind = "process"
    /\ out.row.reason = "No sales orders found"
    /\ out.row.colour_calls = <<"error">>

C37_WitnessMerged ==
    /\ out.kind = "process"
    /\ out.row.items # <<>>
    /\ out.row.result
    /\ out.row.colour_calls = <<"success">>

\* C38: whenever ensure_valid_sos_token returns True, the engine's access
\* token is non-empty and is the token the auth module holds, on the initial
\* authentication, probe, refresh and re-authentication paths alike, a
\* refresh response without an access_token included.
C38_TokenHeldAfterTrue ==
    (out.kind = "token" /\ out.ok) =>
        /\ out.token # NoToken
        /\ out.token = out.auth_token

\* The refresh succeeded with a response that carried no access_token: True
\* is returned and the engine's token is None.
C38_RefreshWithoutToken ==
    /\ out.kind = "token" /\ out.ok
    /\ out.calls = <<"test_connection", "refresh_access_token">>
    /\ inp.auth.refreshed_token = NoToken
    /\ out.token = NoToken

\* The probe succeeded while the auth module holds no token (its last
\* re-authentication failed): True is returned and the tokens differ.
C38_ProbeAfterFailedAuthentication ==
    /\ out.kind = "token" /\ out.ok
    /\ out.calls = <<"test_connection">>
    /\ out.token = "valid" /\ out.auth_token = NoToken

====
